---- MODULE Spec2Model ----
(***************************************************************************)
(* Reference store (GetRef / UpdateRef / updateRefWithHooks) and commit    *)
(* builder (CommitFiles) of harness/gitness, as a state machine of         *)
(* concurrent callers working on one repository.                           *)
(*                                                                         *)
(* A SHA is modelled by its hex text: None is the SHA without bytes, Nil   *)
(* the all-zero hash.  A name (branch, reference) is a sequence of tokens  *)
(* so that prefix stripping and trimming are computed, not assumed.        *)
(***************************************************************************)
EXTENDS Integers, Sequences, FiniteSets, TLC

\* Number of commits that exist in the repository before any call starts.
NumCommits == 2

CommitNames == <<"c1", "c2", "c3", "c4">>

NewCommitNames == <<"n1", "n2">>

Commits == {CommitNames[i] : i \in 1..NumCommits}

\* The concurrent callers.
Procs == {1, 2}

None == ""

Nil == "0000000000000000000000000000000000000000"

gitReferenceNamePrefixBranch == "refs/heads/"

\* The SHA of the commit object that CommitFiles of caller p builds.
NewCommitSHA(p) == NewCommitNames[p]

NewCommits == {NewCommitSHA(p) : p \in Procs}

\* Values a caller can pass for a SHA argument.
SHAs == {None, Nil} \cup Commits

BranchNames == {<<"main">>, <<"dev">>}

GetReferenceFromBranchName(b) == <<gitReferenceNamePrefixBranch>> \o b

RefNames == {GetReferenceFromBranchName(b) : b \in BranchNames}

IsEmpty(s) == s = None

IsNil(s) == s = Nil

(***************************************************************************)
(* Errors.  An error is its class: the status of the errors package, or    *)
(* "Error" for an error without status (fmt.Errorf, a raw command error).  *)
(* Wrapping with %w keeps the class.                                       *)
(***************************************************************************)
OK == "OK"

ErrRepositoryPathEmpty == "InvalidArgument"

\* The text of a failed store command, as a sequence of tokens.
Contains(msg, tok) == \E i \in 1..Len(msg) : msg[i] = tok

processGitErrorf_Contains(msg) ==
    IF Contains(msg, "no such file or directory") THEN "NotFound"
    ELSE IF Contains(msg, "reference already exists") THEN "Conflict"
    ELSE "Internal"

\* processGitErrorf: the first matching rule decides.
processGitErrorf(msg) ==
    IF msg = <<"no such file or directory">> THEN "NotFound"
    ELSE IF Contains(msg, "reference already exists") THEN "Conflict"
    ELSE "Internal"

(***************************************************************************)
(* The store commands.  refs is the reference store: a function from the   *)
(* names of the existing references to their SHAs.                         *)
(***************************************************************************)
StoreFaults == {"none", "enoent"}

FaultMsg(fault) ==
    IF fault = "enoent" THEN <<"no such file or directory">>
    ELSE IF fault = "enoentin" THEN <<"fatal:", "no such file or directory">>
    ELSE IF fault = "notrepo" THEN <<"fatal:", "not a git repository">>
    ELSE IF fault = "status1" THEN <<"error:", "not a valid ref">>
    ELSE <<>>

\* The exit code of a store command that fails with the fault.
FaultExit(fault) == IF fault = "notrepo" THEN 128 ELSE 1

\* The ways a lookup can fail: the ways every store command can, a failure
\* with exit code 128 and another message, and a failure with another exit
\* code and the message of a missing ref.
ShowRefFaults == StoreFaults \cup {"notrepo", "status1"}

\* show-ref --verify -s <ref>
ShowRef(rs, ref, fault) ==
    IF fault # "none" THEN [exit |-> FaultExit(fault), msg |-> FaultMsg(fault), out |-> None]
    ELSE IF ref \in DOMAIN rs THEN [exit |-> 0, msg |-> <<>>, out |-> rs[ref]]
    ELSE [exit |-> 128, msg |-> <<"fatal:", "not a valid ref">>, out |-> None]

GetRef_AnyExit128(rs, repoPath, ref, fault) ==
    IF repoPath = "" THEN [sha |-> None, err |-> ErrRepositoryPathEmpty]
    ELSE LET r == ShowRef(rs, ref, fault) IN
         IF r.exit # 0
         THEN IF r.exit = 128
              THEN [sha |-> None, err |-> "NotFound"]
              ELSE [sha |-> None, err |-> "Error"]
         ELSE [sha |-> r.out, err |-> OK]

GetRef(rs, repoPath, ref, fault) ==
    IF repoPath = "" THEN [sha |-> None, err |-> ErrRepositoryPathEmpty]
    ELSE LET r == ShowRef(rs, ref, fault) IN
         IF r.exit # 0
         THEN IF r.exit = 128 /\ Contains(r.msg, "not a valid ref")
              THEN [sha |-> None, err |-> "NotFound"]
              ELSE [sha |-> None, err |-> "Error"]
         ELSE [sha |-> r.out, err |-> OK]

Remove(rs, ref) == [x \in DOMAIN rs \ {ref} |-> rs[x]]

Put(rs, ref, v) == [x \in DOMAIN rs \cup {ref} |-> IF x = ref THEN v ELSE rs[x]]

\* The value update-ref compares with <old>: Nil stands for "does not exist".
Current(rs, ref) == IF ref \in DOMAIN rs THEN rs[ref] ELSE Nil

GitUpdateRef_NoCompare(rs, ref, old, new, fault) ==
    IF fault # "none" THEN [ok |-> FALSE, msg |-> FaultMsg(fault), refs |-> rs]
    ELSE [ok |-> TRUE, msg |-> <<>>,
          refs |-> IF IsNil(new) THEN Remove(rs, ref) ELSE Put(rs, ref, new)]

\* update-ref <ref> <new> <old>  /  update-ref -d <ref> <old>
GitUpdateRef(rs, ref, old, new, fault) ==
    IF fault # "none" THEN [ok |-> FALSE, msg |-> FaultMsg(fault), refs |-> rs]
    ELSE IF Current(rs, ref) # old
    THEN [ok |-> FALSE,
          msg |-> IF IsNil(old)
                  THEN <<"fatal:", "cannot lock ref", "reference already exists">>
                  ELSE IF ref \in DOMAIN rs
                  THEN <<"fatal:", "cannot lock ref", "is at", rs[ref], "but expected", old>>
                  ELSE <<"fatal:", "cannot lock ref", "unable to resolve reference">>,
          refs |-> rs]
    ELSE [ok |-> TRUE, msg |-> <<>>,
          refs |-> IF IsNil(new) THEN Remove(rs, ref) ELSE Put(rs, ref, new)]

(***************************************************************************)
(* State.                                                                  *)
(*   refs     the reference store of the repository                        *)
(*   objects  the commit objects in the repository's object store          *)
(*   pc       where each caller stands                                     *)
(*   kind     the entry point each caller came in by                       *)
(*   ur       the parameters/locals repoPath, ref, oldValue, newValue of   *)
(*            UpdateRef and then of updateRefWithHooks                     *)
(*   cf       the locals of CommitFiles                                    *)
(*   shared   the staging repository of each caller                        *)
(*   index    the index file of each caller's staging repository           *)
(*   trace    the hook calls and the store commands with an effect that    *)
(*            each caller has made, with arguments and outcome             *)
(*   result   what each caller's entry point returned                      *)
(***************************************************************************)
VARIABLES refs, objects, pc, kind, ur, cf, shared, index, trace, result

storeVars == <<refs, objects, pc, kind, ur, cf, shared, index, trace, result>>

(***************************************************************************)
(* State of the parts of the package that are specified on their own,      *)
(* which no caller of UpdateRef, updateRefWithHooks or CommitFiles         *)
(* touches.                                                                *)
(*   shaArg   the value a SHA is constructed from                          *)
(*   shaVal   the result of sha.New for shaArg                             *)
(*   shaCmp   the last comparison of shaVal with a value, and its outcome  *)
(*   gr       the last call of GetRef by a caller of its own: arguments,   *)
(*            the outcome of the store command if one was run, and result  *)
(*   ge       the last failure of the update-ref command of                *)
(*            updateRefWithHooks looked at on its own: the command, its    *)
(*            error text, and what processGitErrorf made of it             *)
(*   cm       the identities, dates and message that a call of CommitFiles *)
(*            looked at on its own commits with: what the request gives,   *)
(*            the current time, and what CommitTreeWithDate is handed      *)
(*   walk     a call of WalkReferences: its arguments, its position, the   *)
(*            loop counter, the calls of Instructor and handler it made,   *)
(*            and its result                                               *)
(*   producer the goroutine that runs for-each-ref for the walk            *)
(*   pipe     the pipe between the two: the entry being written, and the   *)
(*            state of its write end and of its read end                   *)
(*   ctxDone  the context of the walk has been cancelled                   *)
(***************************************************************************)
VARIABLES shaArg, shaVal, shaCmp, gr, ge, cm, walk, producer, pipe, ctxDone

shaVars == <<shaArg, shaVal, shaCmp>>

walkVars == <<walk, producer, pipe, ctxDone>>

libVars == <<shaVars, gr, ge, cm, walkVars>>

\* A typed Go value: a string, a []byte, a SHA or a value of another type.
Value(type, val) == [type |-> type, val |-> val]

NoValue == Value("none", <<>>)

\* No SHA is under construction or comparison.
ShaIdle == shaArg = NoValue /\ shaVal = NoValue /\ shaCmp = NoValue

\* No walk is going on.
WalkIdle == walk = NoValue /\ producer = NoValue /\ pipe = NoValue /\ ctxDone = FALSE

LibIdle == ShaIdle /\ gr = NoValue /\ ge = NoValue /\ cm = NoValue /\ WalkIdle

vars == <<storeVars, libVars>>

Event(ev, ref, old, new, res) ==
    [ev |-> ev, ref |-> ref, old |-> old, new |-> new, res |-> res]

Frame(repoPath, ref, old, new) ==
    [repoPath |-> repoPath, ref |-> ref, oldValue |-> old, newValue |-> new]

NoFrame == Frame("", <<>>, None, None)

Params(repoUID, branch, newBranch) ==
    [RepoUID |-> repoUID, Branch |-> branch, NewBranch |-> newBranch,
     Actions |-> <<>>, isEmpty |-> FALSE, oldCommitSHA |-> None, i |-> 0,
     treeHash |-> <<>>, newCommitSHA |-> None]

NoCommitFiles == Params("", <<>>, <<>>)

\* All reference stores over the given names and values.
Stores(names, values) == UNION {[d -> values] : d \in SUBSET names}

Init ==
    /\ refs \in Stores(RefNames, Commits)
    /\ objects = Commits
    /\ pc = [p \in Procs |-> "idle"]
    /\ kind = [p \in Procs |-> "none"]
    /\ ur = [p \in Procs |-> NoFrame]
    /\ cf = [p \in Procs |-> NoCommitFiles]
    /\ shared = [p \in Procs |-> "none"]
    /\ index = [p \in Procs |-> <<>>]
    /\ trace = [p \in Procs |-> <<>>]
    /\ result = [p \in Procs |-> "running"]
    /\ LibIdle

\* The reference store returns res to caller p: CommitFiles goes on after a
\* successful UpdateRef, every other return ends the call.
Return(p, res) ==
    IF kind[p] = "CommitFiles" /\ res = OK
    THEN /\ pc' = [pc EXCEPT ![p] = "GetCommit"]
         /\ UNCHANGED result
    ELSE /\ pc' = [pc EXCEPT ![p] = "done"]
         /\ result' = [result EXCEPT ![p] = res]

\* The frames a caller can enter the reference store with: every ref and every
\* pair of values on the repository, and some calls with an empty repository path.
CallFrames ==
    {Frame("repo", ref, o, n) : ref \in RefNames, o \in SHAs, n \in SHAs}
    \cup {Frame("", GetReferenceFromBranchName(<<"main">>), o, CommitNames[1]) : o \in SHAs}

(***************************************************************************)
(* UpdateRef, up to its call of updateRefWithHooks.                        *)
(***************************************************************************)
\* A caller enters UpdateRef.
CallUpdateRef(p) ==
    /\ pc[p] = "idle"
    /\ kind' = [kind EXCEPT ![p] = "RefStore"]
    /\ \E f \in CallFrames : ur' = [ur EXCEPT ![p] = f]
    /\ pc' = [pc EXCEPT ![p] = "UpdateRef"]
    /\ UNCHANGED <<refs, objects, cf, shared, trace, result, index>>
    /\ UNCHANGED libVars

UpdateRefArgs_KeepAbsent(rs, f, fault) ==
    IF f.repoPath = ""
    THEN [err |-> ErrRepositoryPathEmpty, old |-> f.oldValue, new |-> f.newValue, get |-> "no"]
    ELSE LET nv == IF IsEmpty(f.newValue) THEN Nil ELSE f.newValue
             g  == GetRef(rs, f.repoPath, f.ref, fault)
         IN IF ~IsEmpty(f.oldValue)
            THEN [err |-> OK, old |-> f.oldValue, new |-> nv, get |-> "no"]
            ELSE IF g.err = "NotFound"
            THEN [err |-> OK, old |-> Nil, new |-> nv, get |-> g.err]
            ELSE IF g.err # OK
            THEN [err |-> g.err, old |-> f.oldValue, new |-> nv, get |-> g.err]
            ELSE [err |-> OK, old |-> g.sha, new |-> nv, get |-> g.err]

\* Lines 263-289: what UpdateRef passes on for the frame f it was called with.
UpdateRefArgs(rs, f, fault) ==
    IF f.repoPath = ""
    THEN [err |-> ErrRepositoryPathEmpty, old |-> f.oldValue, new |-> f.newValue, get |-> "no"]
    ELSE LET nv == IF IsEmpty(f.newValue) THEN Nil ELSE f.newValue
             g  == GetRef(rs, f.repoPath, f.ref, fault)
         IN IF ~IsEmpty(f.oldValue)
            THEN [err |-> OK, old |-> f.oldValue, new |-> nv, get |-> "no"]
            ELSE IF g.err = "NotFound"
            THEN IF IsNil(nv)
                 THEN [err |-> "NotFound", old |-> f.oldValue, new |-> nv, get |-> g.err]
                 ELSE [err |-> OK, old |-> Nil, new |-> nv, get |-> g.err]
            ELSE IF g.err # OK
            THEN [err |-> g.err, old |-> f.oldValue, new |-> nv, get |-> g.err]
            ELSE [err |-> OK, old |-> g.sha, new |-> nv, get |-> g.err]

UpdateRef(p) ==
    /\ pc[p] = "UpdateRef"
    /\ \E fault \in StoreFaults :
         LET a == UpdateRefArgs(refs, ur[p], fault) IN
         /\ ur' = [ur EXCEPT ![p] = Frame(@.repoPath, @.ref, a.old, a.new)]
         /\ IF a.err = OK
            THEN /\ pc' = [pc EXCEPT ![p] = "updateRefWithHooks"]
                 /\ UNCHANGED result
            ELSE /\ pc' = [pc EXCEPT ![p] = "done"]
                 /\ result' = [result EXCEPT ![p] = a.err]
    /\ UNCHANGED <<refs, objects, kind, cf, shared, trace, index>>
    /\ UNCHANGED libVars

(***************************************************************************)
(* updateRefWithHooks.                                                     *)
(***************************************************************************)
\* A caller inside the package enters updateRefWithHooks.
CallUpdateRefWithHooks(p) ==
    /\ pc[p] = "idle"
    /\ kind' = [kind EXCEPT ![p] = "RefStore"]
    /\ \E f \in CallFrames : ur' = [ur EXCEPT ![p] = f]
    /\ pc' = [pc EXCEPT ![p] = "updateRefWithHooks"]
    /\ UNCHANGED <<refs, objects, cf, shared, trace, result, index>>
    /\ UNCHANGED libVars

ReferenceUpdate(f) == [ref |-> f.ref, old |-> f.oldValue, new |-> f.newValue]

PreReceiveInput(f) == ReferenceUpdate(f)

PostReceiveInput_OldIsNew(f) == [ref |-> f.ref, old |-> f.newValue, new |-> f.newValue]

PostReceiveInput(f) == ReferenceUpdate(f)

HookEvent(ev, in, res) == Event(ev, in.ref, in.old, in.new, res)

\* Outcome of a hook call: it passes, the call itself fails, or it returns
\* an output with Error set.
HookOutcomes == {"OK", "callFailed", "outError"}

\* What the hook reported, as the trace records it.
HookReport(hook) == IF hook = "OK" THEN OK ELSE "Error"

PreReceiveAborts_CallFailureOnly(hook) == hook = "callFailed"

\* Lines 349-354: err != nil or out.Error != nil ends updateRefWithHooks.
PreReceiveAborts(hook) == hook # "OK"

PostReceiveResult_Swallow(hook) == OK

\* Lines 386-399: what updateRefWithHooks returns after post-receive.
PostReceiveResult(hook) == IF hook # "OK" THEN "Error" ELSE OK

ValidateRefUpdate_NilNil(f) ==
    IF f.repoPath = "" THEN ErrRepositoryPathEmpty
    ELSE IF IsEmpty(f.oldValue) THEN "Error"
    ELSE IF IsEmpty(f.newValue) THEN "Error"
    ELSE OK

\* Lines 317-329.
ValidateRefUpdate(f) ==
    IF f.repoPath = "" THEN ErrRepositoryPathEmpty
    ELSE IF IsEmpty(f.oldValue) THEN "Error"
    ELSE IF IsEmpty(f.newValue) THEN "Error"
    ELSE IF IsNil(f.oldValue) /\ IsNil(f.newValue) THEN "Error"
    ELSE OK

\* Lines 317-354: validation, hook client, pre-receive.
UpdateRefWithHooks(p) ==
    /\ pc[p] = "updateRefWithHooks"
    /\ \E client \in {OK, "Error"}, hook \in HookOutcomes :
         LET v  == ValidateRefUpdate(ur[p])
             t1 == Append(trace[p], Event("NewClient", ur[p].ref, None, None, client))
             t2 == Append(t1, HookEvent("PreReceive", PreReceiveInput(ur[p]), HookReport(hook)))
         IN IF v # OK
            THEN /\ UNCHANGED trace
                 /\ Return(p, v)
            ELSE IF client # OK
            THEN /\ trace' = [trace EXCEPT ![p] = t1]
                 /\ Return(p, "Error")
            ELSE /\ trace' = [trace EXCEPT ![p] = t2]
                 /\ IF PreReceiveAborts(hook)
                    THEN Return(p, "Error")
                    ELSE /\ pc' = [pc EXCEPT ![p] = "update-ref"]
                         /\ UNCHANGED result
    /\ UNCHANGED <<refs, objects, kind, ur, cf, shared, index>>
    /\ UNCHANGED libVars

PostAfterCas_Always(ok) == TRUE

\* Line 371: post-receive is reached only when the command did not fail.
PostAfterCas(ok) == ok

\* Lines 362-373: the store's compare-and-swap.
RunUpdateRef(p) ==
    /\ pc[p] = "update-ref"
    /\ \E fault \in StoreFaults :
         LET r   == GitUpdateRef(refs, ur[p].ref, ur[p].oldValue, ur[p].newValue, fault)
             res == IF r.ok THEN OK ELSE processGitErrorf(r.msg)
         IN /\ refs' = r.refs
            /\ trace' = [trace EXCEPT ![p] = Append(@,
                   Event("update-ref", ur[p].ref, ur[p].oldValue, ur[p].newValue, res))]
            /\ IF PostAfterCas(r.ok)
               THEN /\ pc' = [pc EXCEPT ![p] = "PostReceive"]
                    /\ UNCHANGED result
               ELSE Return(p, res)
    /\ UNCHANGED <<objects, kind, ur, cf, shared, index>>
    /\ UNCHANGED libVars

\* Lines 375-399: post-receive.
PostReceive(p) ==
    /\ pc[p] = "PostReceive"
    /\ \E hook \in HookOutcomes :
         /\ trace' = [trace EXCEPT ![p] = Append(@,
                HookEvent("PostReceive", PostReceiveInput(ur[p]), HookReport(hook)))]
         /\ Return(p, PostReceiveResult(hook))
    /\ UNCHANGED <<refs, objects, kind, ur, cf, shared, index>>
    /\ UNCHANGED libVars

(***************************************************************************)
(* File actions.  A path is the sequence of its segments, a tree or index  *)
(* a function from the paths of its blobs to [mode, sha]; directories are  *)
(* the proper prefixes of those paths.  A payload is a sequence of bytes.  *)
(***************************************************************************)
CreateAction == "CREATE"

UpdateAction == "UPDATE"

DeleteAction == "DELETE"

MoveAction == "MOVE"

defaultFilePermission == "100644"

ExecutableMode == "100755"

LinkMode == "120000"

DirMode == "040000"

\* The zero byte that ends the path in the payload of a Move.
NUL == "\\0"

IsPrefix(a, b) == Len(a) <= Len(b) /\ SubSeq(b, 1, Len(a)) = a

IsProperPrefix(a, b) == Len(a) < Len(b) /\ IsPrefix(a, b)

\* The object id of a blob is a function of its content alone.
WriteGitObject(payload) == <<"blob">> \o payload

Entry(mode, content) == [mode |-> mode, sha |-> WriteGitObject(content)]

\* The trees of the commits that exist before any call.
InitialTrees ==
    <<(<<"a">> :> Entry(defaultFilePermission, <<"x">>))
        @@ (<<"d", "f">> :> Entry(ExecutableMode, <<"y">>))
        @@ (<<"l">> :> Entry(LinkMode, <<"a">>)),
      (<<"a">> :> Entry(defaultFilePermission, <<"y">>))
        @@ (<<"d">> :> Entry(defaultFilePermission, <<"x">>)),
      (<<"a">> :> Entry(ExecutableMode, <<"x">>))
        @@ (<<"d", "f">> :> Entry(defaultFilePermission, <<"x">>)),
      (<<"l">> :> Entry(LinkMode, <<"a">>))>>

\* CleanUploadFileName: empty and "." segments go; a path through .git is
\* refused, which shows as the empty path.
RECURSIVE CleanUploadFileName(_)
CleanUploadFileName(path) ==
    IF path = <<>> THEN <<>>
    ELSE IF \E i \in 1..Len(path) : path[i] = ".git" THEN <<>>
    ELSE IF Head(path) \in {"", "."} THEN CleanUploadFileName(Tail(path))
    ELSE <<Head(path)>> \o CleanUploadFileName(Tail(path))

\* GetTreeNode: the entry of a tree at a path, a directory for a proper
\* prefix of a blob's path.
GetTreeNode(tree, path, fault) ==
    IF fault # "none" THEN [err |-> "Error", mode |-> "", sha |-> <<>>]
    ELSE IF path \in DOMAIN tree
    THEN [err |-> OK, mode |-> tree[path].mode, sha |-> tree[path].sha]
    ELSE IF \E q \in DOMAIN tree : IsProperPrefix(path, q)
    THEN [err |-> OK, mode |-> DirMode, sha |-> <<"tree">> \o path]
    ELSE [err |-> "NotFound", mode |-> "", sha |-> <<>>]

IsDir(entry) == entry.mode = DirMode

IsLink(entry) == entry.mode = LinkMode

IsExecutable(entry) == entry.mode = ExecutableMode

\* update-index --add --replace --cacheinfo: the entry is staged at path and
\* the entries that cannot coexist with it (a file at a prefix of path, files
\* below path) leave the index.
AddObjectToIndex(idx, mode, hash, path) ==
    [q \in {x \in DOMAIN idx : ~IsProperPrefix(x, path) /\ ~IsProperPrefix(path, x)}
           \cup {path} |->
        IF q = path THEN [mode |-> mode, sha |-> hash] ELSE idx[q]]

RemoveFilesFromIndex(idx, path) == [q \in DOMAIN idx \ {path} |-> idx[q]]

\* ls-files <path>: the staged files at or below path.
LsFiles(idx, path) == {q \in DOMAIN idx : IsPrefix(path, q)}

Staged(err, idx) == [err |-> err, index |-> idx]

\* Lines 526-551, from the segment with the (1-based) number i on.
RECURSIVE checkPathAvailabilityFrom(_, _, _, _)
checkPathAvailabilityFrom(commit, filePath, isNewFile, i) ==
    IF i > Len(filePath) THEN OK
    ELSE LET entry == GetTreeNode(commit.tree, SubSeq(filePath, 1, i), "none") IN
         IF entry.err = "NotFound" THEN OK
         ELSE IF i < Len(filePath)
         THEN IF ~IsDir(entry) THEN "Conflict"
              ELSE checkPathAvailabilityFrom(commit, filePath, isNewFile, i + 1)
         ELSE IF IsLink(entry) THEN "Conflict"
         ELSE IF IsDir(entry) THEN "Conflict"
         ELSE IF filePath # <<>> \/ isNewFile THEN "Conflict"
         ELSE checkPathAvailabilityFrom(commit, filePath, isNewFile, i + 1)

checkPathAvailability_FinalOnly(commit, filePath, isNewFile, fault) ==
    IF fault # "none" THEN "Error"
    ELSE IF GetTreeNode(commit.tree, filePath, "none").err = "NotFound" THEN OK
    ELSE "Conflict"

checkPathAvailability(commit, filePath, isNewFile, fault) ==
    IF fault # "none" THEN "Error"
    ELSE checkPathAvailabilityFrom(commit, filePath, isNewFile, 1)

StaleSHA_Conflict == "Conflict"

\* Lines 504-506: the class of the error for a source SHA that does not match.
StaleSHA == "InvalidArgument"

getFileEntry_NoShaCheck(commit, sha, path, fault) ==
    LET entry == GetTreeNode(commit.tree, path, fault) IN
    IF entry.err = "NotFound" THEN [err |-> "NotFound", entry |-> entry]
    ELSE IF entry.err # OK THEN [err |-> "Error", entry |-> entry]
    ELSE [err |-> OK, entry |-> entry]

getFileEntry(commit, sha, path, fault) ==
    LET entry == GetTreeNode(commit.tree, path, fault) IN
    IF entry.err = "NotFound" THEN [err |-> "NotFound", entry |-> entry]
    ELSE IF entry.err # OK THEN [err |-> "Error", entry |-> entry]
    ELSE IF sha # <<>> /\ sha # entry.sha THEN [err |-> StaleSHA, entry |-> entry]
    ELSE [err |-> OK, entry |-> entry]

\* A *api.Commit as the file actions use it: nil, or a commit with its tree.
NilCommit == [nil |-> TRUE, tree |-> <<>>]

CommitWithTree(tree) == [nil |-> FALSE, tree |-> tree]

createFile(idx, commit, filePath, mode, payload, fault) ==
    LET avail == IF ~commit.nil THEN checkPathAvailability(commit, filePath, TRUE, fault)
                 ELSE OK
    IN IF avail # OK THEN Staged(avail, idx)
       ELSE IF fault # "none" THEN Staged("Error", idx)
       ELSE Staged(OK, AddObjectToIndex(idx, mode, WriteGitObject(payload), filePath))

updateFile(idx, commit, filePath, sha, mode, payload, fault) ==
    LET e == getFileEntry(commit, sha, filePath, fault) IN
    IF e.err # OK THEN Staged(e.err, idx)
    ELSE Staged(OK, AddObjectToIndex(idx,
                       IF IsExecutable(e.entry) THEN ExecutableMode ELSE mode,
                       WriteGitObject(payload), filePath))

\* The position of the first NUL of the payload, 0 when it has none.
IndexByte(payload) ==
    IF \E i \in 1..Len(payload) : payload[i] = NUL
    THEN CHOOSE i \in 1..Len(payload) :
             payload[i] = NUL /\ \A j \in 1..(i - 1) : payload[j] # NUL
    ELSE 0

parseMovePayload(payload) ==
    LET filePathEnd == IndexByte(payload)
        newPath == IF filePathEnd = 0 THEN payload ELSE SubSeq(payload, 1, filePathEnd - 1)
    IN [newPath    |-> CleanUploadFileName(newPath),
        hasContent |-> filePathEnd # 0,
        newContent |-> IF filePathEnd = 0 THEN <<>>
                       ELSE SubSeq(payload, filePathEnd + 1, Len(payload)),
        err        |-> IF CleanUploadFileName(newPath) = <<>> THEN "Error" ELSE OK]

moveFile(idx, commit, filePath, sha, mode, payload, fault) ==
    LET m == parseMovePayload(payload)
        e == getFileEntry(commit, sha, filePath, fault)
        avail == checkPathAvailability(commit, m.newPath, FALSE, fault)
        fileHash == IF m.hasContent THEN WriteGitObject(m.newContent) ELSE e.entry.sha
        fileMode == IF m.hasContent
                    THEN (IF IsExecutable(e.entry) THEN ExecutableMode ELSE mode)
                    ELSE e.entry.mode
    IN IF m.err # OK THEN Staged(m.err, idx)
       ELSE IF e.err # OK THEN Staged(e.err, idx)
       ELSE IF avail # OK THEN Staged(avail, idx)
       ELSE Staged(OK, RemoveFilesFromIndex(
                          AddObjectToIndex(idx, fileMode, fileHash, m.newPath), filePath))

deleteFile_NoLsFiles(idx, filePath, fault) ==
    IF fault # "none" THEN Staged("Error", idx)
    ELSE Staged(OK, RemoveFilesFromIndex(idx, filePath))

deleteFile(idx, filePath, fault) ==
    IF fault # "none" THEN Staged("Error", idx)
    ELSE IF filePath \notin LsFiles(idx, filePath) THEN Staged("NotFound", idx)
    ELSE Staged(OK, RemoveFilesFromIndex(idx, filePath))

processAction_UnknownRefused(idx, commit, action, fault) ==
    LET filePath == CleanUploadFileName(action.Path) IN
    IF filePath = <<>> THEN Staged("InvalidArgument", idx)
    ELSE IF action.Action = CreateAction
    THEN createFile(idx, commit, filePath, defaultFilePermission, action.Payload, fault)
    ELSE IF action.Action = UpdateAction
    THEN updateFile(idx, commit, filePath, action.SHA, defaultFilePermission,
                    action.Payload, fault)
    ELSE IF action.Action = MoveAction
    THEN moveFile(idx, commit, filePath, action.SHA, defaultFilePermission,
                  action.Payload, fault)
    ELSE IF action.Action = DeleteAction
    THEN deleteFile(idx, filePath, fault)
    ELSE Staged("InvalidArgument", idx)

\* Lines 351-367: one action on a repository with a parent commit.
processAction(idx, commit, action, fault) ==
    LET filePath == CleanUploadFileName(action.Path) IN
    IF filePath = <<>> THEN Staged("InvalidArgument", idx)
    ELSE IF action.Action = CreateAction
    THEN createFile(idx, commit, filePath, defaultFilePermission, action.Payload, fault)
    ELSE IF action.Action = UpdateAction
    THEN updateFile(idx, commit, filePath, action.SHA, defaultFilePermission,
                    action.Payload, fault)
    ELSE IF action.Action = MoveAction
    THEN moveFile(idx, commit, filePath, action.SHA, defaultFilePermission,
                  action.Payload, fault)
    ELSE IF action.Action = DeleteAction
    THEN deleteFile(idx, filePath, fault)
    ELSE Staged(OK, idx)

prepareTreeEmptyRepo_AnyAction(idx, action, fault) ==
    LET filePath == CleanUploadFileName(action.Path)
        c == createFile(idx, NilCommit, filePath, defaultFilePermission, action.Payload, fault)
    IN IF filePath = <<>> THEN Staged("InvalidArgument", idx)
       ELSE IF c.err # OK THEN Staged("Internal", idx)
       ELSE c

\* Lines 281-292: one action on an empty repository.
prepareTreeEmptyRepo(idx, action, fault) ==
    LET filePath == CleanUploadFileName(action.Path)
        c == createFile(idx, NilCommit, filePath, defaultFilePermission, action.Payload, fault)
    IN IF action.Action # CreateAction THEN Staged("PreconditionFailed", idx)
       ELSE IF filePath = <<>> THEN Staged("InvalidArgument", idx)
       ELSE IF c.err # OK THEN Staged("Internal", idx)
       ELSE c

(***************************************************************************)
(* CommitFiles.                                                            *)
(***************************************************************************)
\* strings.TrimSpace on a name: leading and trailing blanks go.
RECURSIVE TrimLeft(_)
TrimLeft(s) == IF s # <<>> /\ Head(s) = " " THEN TrimLeft(Tail(s)) ELSE s

RECURSIVE TrimRight(_)
TrimRight(s) ==
    IF s # <<>> /\ s[Len(s)] = " " THEN TrimRight(SubSeq(s, 1, Len(s) - 1)) ELSE s

TrimSpace(s) == TrimRight(TrimLeft(s))

TrimPrefix(s, prefix) == IF s # <<>> /\ Head(s) = prefix THEN Tail(s) ELSE s

\* Lines 317-318.
BranchShortName(b) == TrimPrefix(TrimSpace(b), gitReferenceNamePrefixBranch)

\* The branch HEAD names.
DefaultBranch == <<gitReferenceNamePrefixBranch, "main">>

Action(action, path, payload, sha) ==
    [Action |-> action, Path |-> path, Payload |-> payload, SHA |-> sha]

\* The file actions of the requests of concurrent callers: one new file.
SpecActions == <<Action(CreateAction, <<"n">>, <<"x">>, <<>>)>>

\* The requests a caller can make: the source branch is main, given in several
\* spellings or left to the default; the target is the same branch, left unset
\* or spelled with the prefix, or dev.
CommitFilesRequests ==
    {[Params(uid, b, nb) EXCEPT !.Actions = SpecActions] :
        uid \in {"", "repo"},
        b \in {<<>>, <<"main">>, <<gitReferenceNamePrefixBranch, "main", " ">>},
        nb \in {<<>>, <<"dev">>, <<gitReferenceNamePrefixBranch, "main">>}}

\* WriteParams.Validate: the repository identifier must be given.
Validate(params) == IF params.RepoUID = "" THEN "InvalidArgument" ELSE OK

\* The repository has no branch at all.
HasNoBranches(rs) == ~ \E b \in BranchNames : GetReferenceFromBranchName(b) \in DOMAIN rs

\* GetBranch: the branch with its tip commit, or NotFound.
GetBranch(rs, b, fault) ==
    IF fault # "none" THEN [commit |-> None, err |-> "Error"]
    ELSE IF GetReferenceFromBranchName(b) \in DOMAIN rs
    THEN [commit |-> rs[GetReferenceFromBranchName(b)], err |-> OK]
    ELSE [commit |-> None, err |-> "NotFound"]

\* CommitFiles returns res to caller p.
Fail(p, res) ==
    /\ pc' = [pc EXCEPT ![p] = "done"]
    /\ result' = [result EXCEPT ![p] = res]

Goto(p, label) ==
    /\ pc' = [pc EXCEPT ![p] = label]
    /\ UNCHANGED result

\* A caller enters CommitFiles.
CallCommitFiles(p) ==
    /\ pc[p] = "idle"
    /\ kind' = [kind EXCEPT ![p] = "CommitFiles"]
    /\ \E params \in CommitFilesRequests : cf' = [cf EXCEPT ![p] = params]
    /\ Goto(p, "CommitFiles")
    /\ UNCHANGED <<refs, objects, ur, shared, trace, index>>
    /\ UNCHANGED libVars

CheckEmpty_NoValidate(p) ==
    /\ pc[p] = "CommitFiles"
    /\ \E fault \in StoreFaults :
         IF fault # "none"
         THEN /\ Fail(p, "Error")
              /\ UNCHANGED cf
         ELSE /\ cf' = [cf EXCEPT ![p].isEmpty = HasNoBranches(refs)]
              /\ Goto(p, "validateAndPrepareHeader")
    /\ UNCHANGED <<refs, objects, kind, ur, shared, trace, index>>
    /\ UNCHANGED libVars

\* Lines 91-127: Validate, then the emptiness check.
CheckEmpty(p) ==
    /\ pc[p] = "CommitFiles"
    /\ \E fault \in StoreFaults :
         IF Validate(cf[p]) # OK
         THEN /\ Fail(p, Validate(cf[p]))
              /\ UNCHANGED cf
         ELSE IF fault # "none"
         THEN /\ Fail(p, "Error")
              /\ UNCHANGED cf
         ELSE /\ cf' = [cf EXCEPT ![p].isEmpty = HasNoBranches(refs)]
              /\ Goto(p, "validateAndPrepareHeader")
    /\ UNCHANGED <<refs, objects, kind, ur, shared, trace, index>>
    /\ UNCHANGED libVars

ValidateAndPrepareHeader_AlwaysLookup(p) ==
    /\ pc[p] = "validateAndPrepareHeader"
    /\ \E headFault \in StoreFaults, fault \in StoreFaults :
         LET b0  == IF cf[p].Branch = <<>> THEN DefaultBranch ELSE cf[p].Branch
             nb0 == IF cf[p].NewBranch = <<>> THEN b0 ELSE cf[p].NewBranch
             b   == BranchShortName(b0)
             nb  == BranchShortName(nb0)
             g   == GetBranch(refs, b, fault)
         IN IF cf[p].Branch = <<>> /\ headFault # "none"
            THEN /\ Fail(p, "Error")
                 /\ UNCHANGED cf
            ELSE IF g.err # OK
            THEN /\ cf' = [cf EXCEPT ![p].Branch = b, ![p].NewBranch = nb]
                 /\ Fail(p, g.err)
            ELSE /\ cf' = [cf EXCEPT ![p].Branch = b, ![p].NewBranch = nb,
                                     ![p].oldCommitSHA = g.commit]
                 /\ Goto(p, IF b # nb THEN "GetBranchNew" ELSE "NewSharedRepo")
    /\ UNCHANGED <<refs, objects, kind, ur, shared, trace, index>>
    /\ UNCHANGED libVars

\* Lines 304-329: the names are resolved, then the source branch is looked up
\* unless the repository is empty.
ValidateAndPrepareHeader(p) ==
    /\ pc[p] = "validateAndPrepareHeader"
    /\ \E headFault \in StoreFaults, fault \in StoreFaults :
         LET b0  == IF cf[p].Branch = <<>> THEN DefaultBranch ELSE cf[p].Branch
             nb0 == IF cf[p].NewBranch = <<>> THEN b0 ELSE cf[p].NewBranch
             b   == BranchShortName(b0)
             nb  == BranchShortName(nb0)
             g   == GetBranch(refs, b, fault)
         IN IF cf[p].Branch = <<>> /\ headFault # "none"
            THEN /\ Fail(p, "Error")
                 /\ UNCHANGED cf
            ELSE IF cf[p].isEmpty
            THEN /\ cf' = [cf EXCEPT ![p].Branch = b, ![p].NewBranch = nb]
                 /\ Goto(p, "NewSharedRepo")
            ELSE IF g.err # OK
            THEN /\ cf' = [cf EXCEPT ![p].Branch = b, ![p].NewBranch = nb]
                 /\ Fail(p, g.err)
            ELSE /\ cf' = [cf EXCEPT ![p].Branch = b, ![p].NewBranch = nb,
                                     ![p].oldCommitSHA = g.commit]
                 /\ Goto(p, IF b # nb THEN "GetBranchNew" ELSE "NewSharedRepo")
    /\ UNCHANGED <<refs, objects, kind, ur, shared, trace, index>>
    /\ UNCHANGED libVars

GetBranchNew_NoExistenceCheck(p) ==
    /\ pc[p] = "GetBranchNew"
    /\ \E fault \in StoreFaults :
         LET g == GetBranch(refs, cf[p].NewBranch, fault) IN
         IF g.err # OK /\ g.err # "NotFound" THEN Fail(p, g.err)
         ELSE Goto(p, "NewSharedRepo")
    /\ UNCHANGED <<refs, objects, kind, ur, cf, shared, trace, index>>
    /\ UNCHANGED libVars

\* Lines 331-342: a new branch must not exist yet.
GetBranchNew(p) ==
    /\ pc[p] = "GetBranchNew"
    /\ \E fault \in StoreFaults :
         LET g == GetBranch(refs, cf[p].NewBranch, fault) IN
         IF g.err = OK THEN Fail(p, "Conflict")
         ELSE IF g.err # "NotFound" THEN Fail(p, g.err)
         ELSE Goto(p, "NewSharedRepo")
    /\ UNCHANGED <<refs, objects, kind, ur, cf, shared, trace, index>>
    /\ UNCHANGED libVars

\* SharedRepo.Close removes the staging directory.
Close(dir) == "closed"

LeaveClosure_NoClose(dir) == dir

\* Line 151: defer shared.Close(ctx) runs when the closure of lines 145-219 returns.
LeaveClosure(dir) == Close(dir)

\* The closure returns err.
FailClosure(p, err) ==
    /\ shared' = [shared EXCEPT ![p] = LeaveClosure(@)]
    /\ Fail(p, err)

\* Lines 147-150.
NewSharedRepo(p) ==
    /\ pc[p] = "NewSharedRepo"
    /\ \/ /\ Fail(p, "Error")
          /\ UNCHANGED shared
       \/ /\ shared' = [shared EXCEPT ![p] = "open"]
          /\ Goto(p, "InitAsShared")
    /\ UNCHANGED <<refs, objects, kind, ur, cf, trace, index>>
    /\ UNCHANGED libVars

\* Lines 154-157.
InitAsShared(p) ==
    /\ pc[p] = "InitAsShared"
    /\ \/ FailClosure(p, "Error")
       \/ /\ Goto(p, "prepareTree")
          /\ UNCHANGED shared
    /\ UNCHANGED <<refs, objects, kind, ur, cf, trace, index>>
    /\ UNCHANGED libVars

\* The tree of a commit of the origin: of a commit that existed before any
\* call, or of the commit a caller built.
TreeOf(c) ==
    IF \E k \in 1..Len(CommitNames) : CommitNames[k] = c
    THEN InitialTrees[CHOOSE k \in 1..Len(CommitNames) : CommitNames[k] = c]
    ELSE cf[CHOOSE q \in Procs : NewCommitSHA(q) = c].treeHash

ParentCommit_Staged(p) == CommitWithTree(index[p])

\* The commit that validateAndPrepareHeader returned to caller p.
ParentCommit(p) ==
    IF IsEmpty(cf[p].oldCommitSHA) THEN NilCommit
    ELSE CommitWithTree(TreeOf(cf[p].oldCommitSHA))

AfterAction(params) ==
    IF params.i >= Len(params.Actions) THEN "WriteTree" ELSE "processAction"

\* Lines 162-168: the index of a non-empty repository is seeded from the
\* parent commit; then the loop over the actions starts.
PrepareTree(p) ==
    /\ pc[p] = "prepareTree"
    /\ \E fault \in StoreFaults :
         IF ~cf[p].isEmpty /\ fault # "none"
         THEN /\ FailClosure(p, "Error")
              /\ UNCHANGED <<cf, index>>
         ELSE /\ index' = [index EXCEPT ![p] =
                      IF cf[p].isEmpty THEN @ ELSE TreeOf(cf[p].oldCommitSHA)]
              /\ cf' = [cf EXCEPT ![p].i = 1]
              /\ Goto(p, AfterAction(cf[p]))
              /\ UNCHANGED shared
    /\ UNCHANGED <<refs, objects, kind, ur, trace>>
    /\ UNCHANGED libVars

ProcessAction_SkipsFailed(p) ==
    /\ pc[p] = "processAction"
    /\ \E fault \in StoreFaults :
         LET action == cf[p].Actions[cf[p].i]
             r == IF cf[p].isEmpty
                  THEN prepareTreeEmptyRepo(index[p], action, fault)
                  ELSE processAction(index[p], ParentCommit(p), action, fault)
         IN /\ index' = [index EXCEPT ![p] = IF r.err # OK THEN @ ELSE r.index]
            /\ cf' = [cf EXCEPT ![p].i = @ + 1]
            /\ Goto(p, AfterAction(cf[p]))
            /\ UNCHANGED shared
    /\ UNCHANGED <<refs, objects, kind, ur, trace>>
    /\ UNCHANGED libVars

\* Lines 266-270 and 280-293: one turn of the loop over the actions.
ProcessAction(p) ==
    /\ pc[p] = "processAction"
    /\ \E fault \in StoreFaults :
         LET action == cf[p].Actions[cf[p].i]
             r == IF cf[p].isEmpty
                  THEN prepareTreeEmptyRepo(index[p], action, fault)
                  ELSE processAction(index[p], ParentCommit(p), action, fault)
         IN IF r.err # OK
            THEN /\ FailClosure(p, r.err)
                 /\ UNCHANGED <<cf, index>>
            ELSE /\ index' = [index EXCEPT ![p] = r.index]
                 /\ cf' = [cf EXCEPT ![p].i = @ + 1]
                 /\ Goto(p, AfterAction(cf[p]))
                 /\ UNCHANGED shared
    /\ UNCHANGED <<refs, objects, kind, ur, trace>>
    /\ UNCHANGED libVars

WriteTree_ThenMoveObjects(p) ==
    /\ pc[p] = "WriteTree"
    /\ \/ /\ FailClosure(p, "Error")
          /\ UNCHANGED cf
       \/ /\ cf' = [cf EXCEPT ![p].treeHash = index[p]]
          /\ Goto(p, "MoveObjects")
          /\ UNCHANGED shared
    /\ UNCHANGED <<refs, objects, kind, ur, index, trace>>
    /\ UNCHANGED libVars

\* Lines 179-182: the tree is written from the index.
WriteTree(p) ==
    /\ pc[p] = "WriteTree"
    /\ \/ /\ FailClosure(p, "Error")
          /\ UNCHANGED cf
       \/ /\ cf' = [cf EXCEPT ![p].treeHash = index[p]]
          /\ Goto(p, "CommitTree")
          /\ UNCHANGED shared
    /\ UNCHANGED <<refs, objects, kind, ur, index, trace>>
    /\ UNCHANGED libVars

\* Lines 192-211: the commit is built on oldCommitSHA.
CommitTree(p) ==
    /\ pc[p] = "CommitTree"
    /\ \/ /\ FailClosure(p, "Error")
          /\ UNCHANGED cf
       \/ /\ cf' = [cf EXCEPT ![p].newCommitSHA = NewCommitSHA(p)]
          /\ Goto(p, "MoveObjects")
          /\ UNCHANGED shared
    /\ UNCHANGED <<refs, objects, kind, ur, trace, index>>
    /\ UNCHANGED libVars

UpdateRefOld_Tip(params) == params.oldCommitSHA

\* Lines 226-231: the old value CommitFiles hands to UpdateRef.
UpdateRefOld(params) ==
    IF params.Branch # params.NewBranch THEN Nil ELSE params.oldCommitSHA

UpdateRefName(params) ==
    IF params.Branch # params.NewBranch
    THEN GetReferenceFromBranchName(params.NewBranch)
    ELSE GetReferenceFromBranchName(params.Branch)

\* Lines 213-239: the objects move to the origin, the closure returns and
\* UpdateRef is called.
MoveObjects(p) ==
    /\ pc[p] = "MoveObjects"
    /\ \/ /\ FailClosure(p, "Error")
          /\ UNCHANGED <<objects, ur>>
       \/ /\ objects' = objects \cup {cf[p].newCommitSHA}
          /\ shared' = [shared EXCEPT ![p] = LeaveClosure(@)]
          /\ ur' = [ur EXCEPT ![p] =
                 Frame("repo", UpdateRefName(cf[p]), UpdateRefOld(cf[p]), cf[p].newCommitSHA)]
          /\ Goto(p, "UpdateRef")
    /\ UNCHANGED <<refs, kind, cf, trace, index>>
    /\ UNCHANGED libVars

\* Lines 246-256.
GetCommit(p) ==
    /\ pc[p] = "GetCommit"
    /\ \E fault \in StoreFaults :
         Fail(p, IF fault # "none" \/ cf[p].newCommitSHA \notin objects THEN "Error" ELSE OK)
    /\ UNCHANGED <<refs, objects, kind, ur, cf, shared, trace, index>>
    /\ UNCHANGED libVars

Next ==
    \/ \E p \in Procs : CallUpdateRef(p)
    \/ \E p \in Procs : UpdateRef(p)
    \/ \E p \in Procs : CallUpdateRefWithHooks(p)
    \/ \E p \in Procs : UpdateRefWithHooks(p)
    \/ \E p \in Procs : RunUpdateRef(p)
    \/ \E p \in Procs : PostReceive(p)
    \/ \E p \in Procs : CallCommitFiles(p)
    \/ \E p \in Procs : CheckEmpty(p)
    \/ \E p \in Procs : ValidateAndPrepareHeader(p)
    \/ \E p \in Procs : GetBranchNew(p)
    \/ \E p \in Procs : NewSharedRepo(p)
    \/ \E p \in Procs : InitAsShared(p)
    \/ \E p \in Procs : PrepareTree(p)
    \/ \E p \in Procs : ProcessAction(p)
    \/ \E p \in Procs : WriteTree(p)
    \/ \E p \in Procs : CommitTree(p)
    \/ \E p \in Procs : MoveObjects(p)
    \/ \E p \in Procs : GetCommit(p)

\* Concurrent callers of the reference store and of CommitFiles on one repository.
Spec == Init /\ [][Next]_vars

(***************************************************************************)
(* One caller of CommitFiles with a list of file actions.                  *)
(***************************************************************************)
\* The longest list of actions of a request.
MaxActions == 2

TreeActions ==
    {Action(CreateAction, path, <<"x">>, <<>>) :
        path \in {<<"a">>, <<"d">>, <<"d", "f">>, <<"d", "g">>, <<"a", "g">>,
                  <<"l">>, <<"l", "g">>, <<"n">>, <<>>}}
    \cup {Action(UpdateAction, path, <<"z">>, sha) :
        path \in {<<"a">>, <<"d", "f">>, <<"n">>},
        sha \in {<<>>, WriteGitObject(<<"x">>), WriteGitObject(<<"y">>)}}
    \cup {Action(DeleteAction, path, <<>>, <<>>) :
        path \in {<<"a">>, <<"d", "f">>, <<"d">>, <<"n">>}}
    \cup {Action(MoveAction, <<"a">>, <<"n">>, <<>>),
          Action(MoveAction, <<"a">>, <<"n", NUL, "z">>, WriteGitObject(<<"x">>)),
          Action(MoveAction, <<"d", "f">>, <<"n", NUL, "z">>, <<>>),
          Action(MoveAction, <<"a">>, <<"l">>, <<>>),
          Action(MoveAction, <<"a">>, <<NUL, "z">>, <<>>),
          Action(MoveAction, <<"n">>, <<"a">>, <<>>),
          Action(MoveAction, <<"d">>, <<"n", NUL, "z">>, <<>>)}
    \cup {Action("PATCH", path, <<"x">>, <<>>) : path \in {<<"a">>, <<".">>}}

ActionLists == UNION {[1..n -> TreeActions] : n \in 0..MaxActions}

TreeRequests ==
    {[Params("repo", <<"main">>, nb) EXCEPT !.Actions = acts] :
        nb \in {<<>>, <<"dev">>}, acts \in ActionLists}

\* Caller 1 has entered CommitFiles with its request; nobody else calls.
TreeInit ==
    /\ refs \in Stores({GetReferenceFromBranchName(<<"main">>)}, Commits)
    /\ objects = Commits
    /\ pc = [p \in Procs |-> IF p = 1 THEN "CommitFiles" ELSE "idle"]
    /\ kind = [p \in Procs |-> IF p = 1 THEN "CommitFiles" ELSE "none"]
    /\ ur = [p \in Procs |-> NoFrame]
    /\ \E params \in TreeRequests : cf = [p \in Procs |-> IF p = 1 THEN params ELSE NoCommitFiles]
    /\ shared = [p \in Procs |-> "none"]
    /\ index = [p \in Procs |-> <<>>]
    /\ trace = [p \in Procs |-> <<>>]
    /\ result = [p \in Procs |-> "running"]
    /\ LibIdle

TreeNext ==
    \/ \E p \in Procs : CheckEmpty(p)
    \/ \E p \in Procs : ValidateAndPrepareHeader(p)
    \/ \E p \in Procs : GetBranchNew(p)
    \/ \E p \in Procs : NewSharedRepo(p)
    \/ \E p \in Procs : InitAsShared(p)
    \/ \E p \in Procs : PrepareTree(p)
    \/ \E p \in Procs : ProcessAction(p)
    \/ \E p \in Procs : WriteTree(p)
    \/ \E p \in Procs : CommitTree(p)
    \/ \E p \in Procs : MoveObjects(p)
    \/ \E p \in Procs : UpdateRef(p)
    \/ \E p \in Procs : UpdateRefWithHooks(p)
    \/ \E p \in Procs : RunUpdateRef(p)
    \/ \E p \in Procs : PostReceive(p)
    \/ \E p \in Procs : GetCommit(p)

\* A single CommitFiles call with every list of up to MaxActions file actions.
TreeSpec == TreeInit /\ [][TreeNext]_vars

(***************************************************************************)
(* sha.SHA.  A text is a sequence of characters, a byte a number of        *)
(* 0..255; a SHA is the record of its fields bytes and str.                *)
(***************************************************************************)
\* The number of bytes of a hash.
ShaBytes == 2

hextable == <<"0", "1", "2", "3", "4", "5", "6", "7", "8", "9",
              "a", "b", "c", "d", "e", "f">>

upperhex == <<"A", "B", "C", "D", "E", "F">>

\* encoding/hex fromHexChar: the value of a digit of either case, -1 for
\* every other character.
fromHexChar(c) ==
    IF \E i \in 1..16 : hextable[i] = c
    THEN (CHOOSE i \in 1..16 : hextable[i] = c) - 1
    ELSE IF \E i \in 1..6 : upperhex[i] = c
    THEN (CHOOSE i \in 1..6 : upperhex[i] = c) + 9
    ELSE -1

\* hex.DecodeString: two digits make a byte; a text of odd length or with
\* another character is an error.
DecodeString(s) ==
    IF Len(s) % 2 = 1 \/ \E i \in 1..Len(s) : fromHexChar(s[i]) = -1
    THEN [err |-> "Error", bytes |-> <<>>]
    ELSE [err |-> OK,
          bytes |-> [k \in 1..(Len(s) \div 2) |->
                       16 * fromHexChar(s[2 * k - 1]) + fromHexChar(s[2 * k])]]

\* hex.EncodeToString: two lower-case digits for every byte.
EncodeToString(b) ==
    [i \in 1..(2 * Len(b)) |->
        IF i % 2 = 1 THEN hextable[(b[(i + 1) \div 2] \div 16) + 1]
        ELSE hextable[(b[i \div 2] % 16) + 1]]

SHA(bytes, str) == [bytes |-> bytes, str |-> str]

\* SHA{}, the zero value of the type.
ZeroSHA == SHA(<<>>, <<>>)

ErrTypeNotSupported == "Error"

String(s) == IF s.str = <<>> THEN EncodeToString(s.bytes) ELSE s.str

IsZero_AllZeroes(s) == \A i \in 1..Len(s.bytes) : s.bytes[i] = 0

IsZero(s) == Len(s.bytes) = 0

Equal(s, v) ==
    IF v.type = "string" THEN v.val = String(s)
    ELSE IF v.type = "bytes" THEN v.val = s.bytes
    ELSE IF v.type = "SHA" THEN v.val.bytes = s.bytes
    ELSE FALSE

New(value) ==
    IF value.type = "string"
    THEN LET b == DecodeString(TrimSpace(value.val)) IN
         IF b.err # OK THEN [sha |-> ZeroSHA, err |-> b.err]
         ELSE [sha |-> SHA(b.bytes, <<>>), err |-> OK]
    ELSE IF value.type = "bytes" THEN [sha |-> SHA(value.val, <<>>), err |-> OK]
    ELSE [sha |-> ZeroSHA, err |-> ErrTypeNotSupported]

\* The text of the constant Nil: a hash of zero digits.
NilText == [i \in 1..(2 * ShaBytes) |-> "0"]

\* Texts of digits of both cases, of white space and of a character that is
\* no digit, up to one character longer than a hash; byte slices up to the
\* length of a hash; a value of a type that New does not support.
ShaTexts == UNION {[1..n -> {"0", "a", "A", "g", " "}] : n \in 0..(2 * ShaBytes + 1)}

ShaSlices == UNION {[1..n -> {0, 171}] : n \in 0..ShaBytes}

ShaArgs ==
    {Value("string", t) : t \in ShaTexts}
    \cup {Value("bytes", b) : b \in ShaSlices}
    \cup {Value("named", <<"0", "a">>)}

\* What the SHA made of arg is compared with: arg itself, the bytes that
\* its text stands for, a second SHA made of arg, the SHA of Nil, the zero
\* SHA, and a value that is neither string, []byte nor SHA.
ShaOperands(arg) ==
    [self  |-> arg,
     raw   |-> Value("bytes", IF arg.type = "string"
                              THEN DecodeString(TrimSpace(arg.val)).bytes ELSE arg.val),
     again |-> Value("SHA", New(arg).sha),
     nil   |-> Value("SHA", New(Value("string", NilText)).sha),
     zero  |-> Value("SHA", ZeroSHA),
     other |-> Value("int", 0)]

ShaInit ==
    /\ shaArg \in ShaArgs
    /\ shaVal = NoValue
    /\ shaCmp = NoValue
    /\ refs = <<>>
    /\ objects = {}
    /\ pc = [p \in Procs |-> "idle"]
    /\ kind = [p \in Procs |-> "none"]
    /\ ur = [p \in Procs |-> NoFrame]
    /\ cf = [p \in Procs |-> NoCommitFiles]
    /\ shared = [p \in Procs |-> "none"]
    /\ index = [p \in Procs |-> <<>>]
    /\ trace = [p \in Procs |-> <<>>]
    /\ result = [p \in Procs |-> "running"]
    /\ gr = NoValue /\ ge = NoValue /\ cm = NoValue
    /\ WalkIdle

\* sha.New(shaArg)
NewSHA ==
    /\ shaVal = NoValue
    /\ shaVal' = New(shaArg)
    /\ UNCHANGED <<shaArg, shaCmp, storeVars, gr, ge, cm, walkVars>>

\* s.Equal(val) for the SHA s that New returned without error
EqualSHA ==
    /\ shaVal # NoValue /\ shaVal.err = OK
    /\ \E with \in DOMAIN ShaOperands(shaArg) :
         shaCmp' = [with |-> with, res |-> Equal(shaVal.sha, ShaOperands(shaArg)[with])]
    /\ UNCHANGED <<shaArg, shaVal, storeVars, gr, ge, cm, walkVars>>

ShaNext == NewSHA \/ EqualSHA

\* Construction and comparison of one SHA.
ShaSpec == ShaInit /\ [][ShaNext]_vars

(***************************************************************************)
(* GetRef, called on its own.                                              *)
(***************************************************************************)
\* The references a caller asks for: the branches, and a name that is not
\* a full reference name.
GetRefNames == RefNames \cup {<<"main">>}

\* Lines 232-249: a whole call of GetRef.
GetRefCall ==
    /\ \E repoPath \in {"", "repo"}, ref \in GetRefNames, fault \in ShowRefFaults :
         gr' = [repoPath |-> repoPath, ref |-> ref,
                cmd |-> IF repoPath = "" THEN NoValue ELSE ShowRef(refs, ref, fault),
                res |-> GetRef(refs, repoPath, ref, fault)]
    /\ UNCHANGED <<storeVars, shaVars, ge, cm, walkVars>>

\* Calls of GetRef on every reference store.
GetRefSpec == Init /\ [][GetRefCall]_vars

(***************************************************************************)
(* The failure of the store update of updateRefWithHooks, on its own.      *)
(***************************************************************************)
\* The ways update-ref can fail besides the comparison: the ways every
\* store command can, and a failure whose text names a missing file within
\* a longer message.
UpdateRefFaults == StoreFaults \cup {"enoentin"}

\* Lines 362-373 of updateRefWithHooks when the command fails.
UpdateRefFailure ==
    /\ \E ref \in RefNames, old \in SHAs \ {None}, new \in SHAs \ {None},
          fault \in UpdateRefFaults :
         LET r == GitUpdateRef(refs, ref, old, new, fault) IN
         /\ ~(IsNil(old) /\ IsNil(new))
         /\ ~r.ok
         /\ ge' = [ref |-> ref, old |-> old, new |-> new, fault |-> fault,
                   msg |-> r.msg, res |-> processGitErrorf(r.msg)]
    /\ UNCHANGED <<storeVars, shaVars, gr, cm, walkVars>>

\* Failing store updates on every reference store.
UpdateRefFailureSpec == Init /\ [][UpdateRefFailure]_vars

(***************************************************************************)
(* The identities, the dates and the message of the commit, on their own.  *)
(* A text is a sequence of characters; an optional field that is not given *)
(* is the nil pointer.                                                     *)
(***************************************************************************)
\* The longest title and the longest body of a request.
MaxText == 2

NilPtr == NoValue

Identity(name, email) == [Name |-> name, Email |-> email]

\* A time.Time.
Time(t) == Value("time", <<t>>)

Texts == UNION {[1..n -> {" ", "t"}] : n \in 0..MaxText}

\* The requests as far as the commit's header goes, with the time of the call.
HeaderParams ==
    [Actor : {Identity("actor", "actor@")},
     Committer : {NilPtr, Identity("com", "com@")},
     Author : {NilPtr, Identity("aut", "aut@")},
     CommitterDate : {NilPtr, Time("2023-01-01")},
     AuthorDate : {NilPtr, Time("2022-01-01")},
     Title : Texts, Message : Texts,
     now : {Time("2024-01-01"), Time("2024-01-02")}]

\* Lines 97-100.
committer(params) ==
    IF params.Committer # NilPtr THEN params.Committer ELSE params.Actor

\* Lines 101-104.
committerDate(params) ==
    IF params.CommitterDate # NilPtr THEN params.CommitterDate ELSE params.now

author_Actor(params) ==
    IF params.Author # NilPtr THEN params.Author ELSE params.Actor

\* Lines 106-109.
author(params) ==
    IF params.Author # NilPtr THEN params.Author ELSE committer(params)

\* Lines 110-113.
authorDate(params) ==
    IF params.AuthorDate # NilPtr THEN params.AuthorDate ELSE committerDate(params)

\* Lines 184-187.
message(params) ==
    TrimSpace(params.Title)
        \o (IF Len(params.Message) > 0
            THEN <<"\n", "\n">> \o TrimSpace(params.Message) ELSE <<>>)

HeaderInit ==
    /\ refs = <<>> /\ objects = {}
    /\ pc = [p \in Procs |-> "idle"]
    /\ kind = [p \in Procs |-> "none"]
    /\ ur = [p \in Procs |-> NoFrame]
    /\ cf = [p \in Procs |-> NoCommitFiles]
    /\ shared = [p \in Procs |-> "none"]
    /\ index = [p \in Procs |-> <<>>]
    /\ trace = [p \in Procs |-> <<>>]
    /\ result = [p \in Procs |-> "running"]
    /\ ShaIdle /\ gr = NoValue /\ ge = NoValue /\ WalkIdle
    /\ \E params \in HeaderParams : cm = [params |-> params, commit |-> NoValue]

\* Lines 192-207: the arguments of CommitTreeWithDate.
CommitTreeWithDate ==
    /\ cm.commit = NoValue
    /\ cm' = [cm EXCEPT !.commit =
                [author        |-> Identity(author(cm.params).Name, author(cm.params).Email),
                 committer     |-> Identity(committer(cm.params).Name,
                                            committer(cm.params).Email),
                 message       |-> message(cm.params),
                 authorDate    |-> authorDate(cm.params),
                 committerDate |-> committerDate(cm.params)]]
    /\ UNCHANGED <<storeVars, shaVars, gr, ge, walkVars>>

\* The header of the commit for every request.
HeaderSpec == HeaderInit /\ [][CommitTreeWithDate]_vars

(***************************************************************************)
(* WalkReferences.  The calling goroutine consumes what the goroutine of   *)
(* lines 154-171 produces.  The stream is what for-each-ref writes: its    *)
(* entries in order, and the point at which the command fails, if it does. *)
(* The command is given --count (line 158); the stream of the model may be *)
(* longer than that, so that the bound of the consumer's loop is checked   *)
(* on its own.  The pipe is synchronous: a write ends when the entry has   *)
(* been read or the read end has been closed.                              *)
(***************************************************************************)
MaxInt32 == 2147483647

\* The longest reference stream.
MaxRefs == 3

\* The largest MaxWalkDistance of a call.
MaxDist == 2

WalkCap_Unbounded(d) == MaxInt32

\* Lines 132-134.
WalkCap(d) == IF d <= 0 THEN MaxInt32 ELSE d

\* What an Instructor returns: an instruction, or an error.
InstructorAnswers == {"Stop", "Handle", "Skip", "InvalidArgument"}

\* What a handler returns: nil, or an error.
HandlerAnswers == {OK, "Conflict"}

Call(fn, k, ret) == [fn |-> fn, entry |-> k, ret |-> ret]

Turn(calls, ctl, err) == [calls |-> calls, ctl |-> ctl, err |-> err]

walkEntry_StopHandles(k, entry, instruction, handled) ==
    IF entry = "unmappable" THEN Turn(<<>>, "return", "Error")
    ELSE IF instruction \notin {"Stop", "Handle", "Skip"}
    THEN Turn(<<Call("Instructor", k, instruction)>>, "return", instruction)
    ELSE IF instruction = "Skip"
    THEN Turn(<<Call("Instructor", k, instruction)>>, "continue", OK)
    ELSE IF handled # OK
    THEN Turn(<<Call("Instructor", k, instruction), Call("handler", k, handled)>>,
              "return", handled)
    ELSE Turn(<<Call("Instructor", k, instruction), Call("handler", k, handled)>>,
              IF instruction = "Stop" THEN "break" ELSE "continue", OK)

walkEntry_HandleSkipped(k, entry, instruction, handled) ==
    IF entry = "unmappable" THEN Turn(<<>>, "return", "Error")
    ELSE IF instruction \notin {"Stop", "Handle", "Skip"}
    THEN Turn(<<Call("Instructor", k, instruction)>>, "return", instruction)
    ELSE IF instruction = "Stop"
    THEN Turn(<<Call("Instructor", k, instruction)>>, "break", OK)
    ELSE IF handled # OK
    THEN Turn(<<Call("Instructor", k, instruction), Call("handler", k, handled)>>,
              "return", handled)
    ELSE Turn(<<Call("Instructor", k, instruction), Call("handler", k, handled)>>,
              "continue", OK)

\* Lines 192-214: one entry that the parser returned, the k-th of the stream.
walkEntry(k, entry, instruction, handled) ==
    IF entry = "unmappable" THEN Turn(<<>>, "return", "Error")
    ELSE IF instruction \notin {"Stop", "Handle", "Skip"}
    THEN Turn(<<Call("Instructor", k, instruction)>>, "return", instruction)
    ELSE IF instruction = "Skip"
    THEN Turn(<<Call("Instructor", k, instruction)>>, "continue", OK)
    ELSE IF instruction = "Stop"
    THEN Turn(<<Call("Instructor", k, instruction)>>, "break", OK)
    ELSE IF handled # OK
    THEN Turn(<<Call("Instructor", k, instruction), Call("handler", k, handled)>>,
              "return", handled)
    ELSE Turn(<<Call("Instructor", k, instruction), Call("handler", k, handled)>>,
              "continue", OK)

\* The streams: entries that are well-formed, that the parser fails on, or
\* that mapRawRef fails on.
WalkStreams == UNION {[1..n -> {"ok", "garbled", "unmappable"}] : n \in 0..MaxRefs}

WalkInit ==
    /\ walk \in {[repoPath |-> rp, d |-> d, MaxWalkDistance |-> d,
                   pc |-> "WalkReferences", i |-> 0, calls |-> <<>>, res |-> "running"] :
                     rp \in {"", "repo"}, d \in (-1)..MaxDist}
    /\ producer \in UNION {{[pc |-> "none", stream |-> s, failAt |-> f, sent |-> 0] :
                               f \in (-1)..Len(s)} : s \in WalkStreams}
    /\ pipe = NoValue
    /\ ctxDone = FALSE
    /\ refs = <<>>
    /\ objects = {}
    /\ pc = [p \in Procs |-> "idle"]
    /\ kind = [p \in Procs |-> "none"]
    /\ ur = [p \in Procs |-> NoFrame]
    /\ cf = [p \in Procs |-> NoCommitFiles]
    /\ shared = [p \in Procs |-> "none"]
    /\ index = [p \in Procs |-> <<>>]
    /\ trace = [p \in Procs |-> <<>>]
    /\ result = [p \in Procs |-> "running"]
    /\ ShaIdle
    /\ gr = NoValue /\ ge = NoValue /\ cm = NoValue

\* Lines 122-175: the options are backfilled, the pipe is made and the
\* producer is started.
WalkReferences ==
    /\ walk # NoValue /\ walk.pc = "WalkReferences"
    /\ IF walk.repoPath = ""
       THEN /\ walk' = [walk EXCEPT !.pc = "done", !.res = ErrRepositoryPathEmpty]
            /\ UNCHANGED <<producer, pipe>>
       ELSE /\ walk' = [walk EXCEPT !.MaxWalkDistance = WalkCap(@),
                                    !.pc = "walkReferenceParser"]
            /\ producer' = [producer EXCEPT !.pc = "run"]
            /\ pipe' = [buf |-> <<>>, w |-> "open", r |-> "open"]
    /\ UNCHANGED <<ctxDone, storeVars, shaVars, gr, ge, cm>>

\* The walk returns res; the deferred pipeOut.Close() of line 152 runs.
WalkReturn_NoClose(calls, res) ==
    /\ walk' = [walk EXCEPT !.pc = "done", !.calls = calls, !.res = res]
    /\ UNCHANGED pipe

\* Lines 152 and 176: walkReferenceParser returns and the deferred
\* pipeOut.Close() runs; what was being written is dropped.
WalkReturn(calls, res) ==
    /\ walk' = [walk EXCEPT !.pc = "done", !.calls = calls, !.res = res]
    /\ pipe' = [pipe EXCEPT !.buf = <<>>, !.r = "closed"]

\* Lines 184-221: one turn of the loop, or the end of the loop.  A read of
\* the pipe waits for an entry or for the write end to be closed.
walkReferenceParser ==
    /\ walk # NoValue /\ walk.pc = "walkReferenceParser"
    /\ \/ /\ walk.i >= walk.MaxWalkDistance
          /\ WalkReturn(walk.calls, OK)
       \/ /\ walk.i < walk.MaxWalkDistance /\ pipe.buf # <<>>
          /\ \E instruction \in InstructorAnswers, handled \in HandlerAnswers :
               LET k == pipe.buf[1]
                   t == walkEntry(k, producer.stream[k], instruction, handled)
               IN IF producer.stream[k] = "garbled"
                  THEN WalkReturn(walk.calls,
                                  processGitErrorf(<<"failed to parse reference walk output">>))
                  ELSE IF t.ctl = "return" THEN WalkReturn(walk.calls \o t.calls, t.err)
                  ELSE IF t.ctl = "break" THEN WalkReturn(walk.calls \o t.calls, OK)
                  ELSE /\ walk' = [walk EXCEPT !.i = @ + 1, !.calls = @ \o t.calls]
                       /\ pipe' = [pipe EXCEPT !.buf = <<>>]
       \/ /\ walk.i < walk.MaxWalkDistance /\ pipe.buf = <<>> /\ pipe.w # "open"
          /\ WalkReturn(walk.calls,
                        IF pipe.w = "eof" THEN OK
                        ELSE processGitErrorf(<<"failed to parse reference walk output">>))
    /\ UNCHANGED <<producer, ctxDone, storeVars, shaVars, gr, ge, cm>>

\* The command has more to write.
MoreOutput ==
    producer.sent < Len(producer.stream) /\ producer.sent # producer.failAt /\ ~ctxDone

\* Lines 162-165, inside cmd.Run: the command writes its next entry.
ForEachRefWrite ==
    /\ producer # NoValue /\ producer.pc = "run"
    /\ MoreOutput /\ pipe.buf = <<>> /\ pipe.r = "open"
    /\ pipe' = [pipe EXCEPT !.buf = <<producer.sent + 1>>]
    /\ producer' = [producer EXCEPT !.sent = @ + 1]
    /\ UNCHANGED <<walk, ctxDone, storeVars, shaVars, gr, ge, cm>>

ForEachRefExit_CloseOnly ==
    /\ producer # NoValue /\ producer.pc = "run"
    /\ pipe.r = "closed" \/ (~MoreOutput /\ pipe.buf = <<>>)
    /\ pipe' = [pipe EXCEPT !.buf = <<>>, !.w = "eof"]
    /\ producer' = [producer EXCEPT !.pc = "done"]
    /\ UNCHANGED <<walk, ctxDone, storeVars, shaVars, gr, ge, cm>>

\* Lines 162-170: cmd.Run returns, when all it wrote has been read or the
\* read end is closed, and the write end is closed, with the error of the
\* command if it failed, was terminated or could not write.
ForEachRefExit ==
    /\ producer # NoValue /\ producer.pc = "run"
    /\ pipe.r = "closed" \/ (~MoreOutput /\ pipe.buf = <<>>)
    /\ LET failed == \/ ctxDone
                      \/ producer.sent = producer.failAt
                      \/ (pipe.r = "closed" /\ (MoreOutput \/ pipe.buf # <<>>))
       IN pipe' = [pipe EXCEPT !.buf = <<>>, !.w = IF failed THEN "err" ELSE "eof"]
    /\ producer' = [producer EXCEPT !.pc = "done"]
    /\ UNCHANGED <<walk, ctxDone, storeVars, shaVars, gr, ge, cm>>

\* The caller cancels the context of a walk that is under way; the command
\* is terminated and writes nothing more.
Cancel ==
    /\ walk # NoValue /\ walk.pc = "walkReferenceParser"
    /\ ~ctxDone
    /\ ctxDone' = TRUE
    /\ UNCHANGED <<walk, producer, pipe, storeVars, shaVars, gr, ge, cm>>

WalkNext ==
    \/ WalkReferences
    \/ walkReferenceParser
    \/ ForEachRefWrite
    \/ ForEachRefExit
    \/ Cancel

\* One call of WalkReferences on every stream.
WalkSpec == WalkInit /\ [][WalkNext]_vars

\* The same with the two goroutines scheduled fairly.
WalkLiveSpec ==
    /\ WalkInit
    /\ [][WalkNext]_vars
    /\ WF_vars(walkReferenceParser)
    /\ WF_vars(ForEachRefWrite)
    /\ WF_vars(ForEachRefExit)

(***************************************************************************)
(* Properties.                                                             *)
(***************************************************************************)
\* The hook calls and effective store commands of caller p named ev.
EventsOf(p, ev) == {i \in 1..Len(trace[p]) : trace[p][i].ev = ev}

Did(p, ev, res) == \E i \in EventsOf(p, ev) : trace[p][i].res = res

DidFail(p, ev) == \E i \in EventsOf(p, ev) : trace[p][i].res # OK

Finished(p) == pc[p] = "done"

Failed(p) == Finished(p) /\ result[p] # OK

\* Caller p's compare-and-swap on ref with old value old went through.
Won(p, ref, old) ==
    \E i \in EventsOf(p, "update-ref") :
        /\ trace[p][i].ref = ref
        /\ trace[p][i].old = old
        /\ trace[p][i].res = OK

\* Caller q's compare-and-swap on ref with old value old was refused by the
\* store because of the value of the ref.
Lost(q, ref, old) ==
    \E i \in EventsOf(q, "update-ref") :
        /\ trace[q][i].ref = ref
        /\ trace[q][i].old = old
        /\ trace[q][i].res \in {"Conflict", "Internal"}

AllHooksPassed(p) == ~DidFail(p, "NewClient") /\ ~DidFail(p, "PreReceive")
                     /\ ~DidFail(p, "PostReceive")

\* Two UpdateRef calls raced on ref from the same old value: p won, q lost,
\* all hooks of both passed and nobody else moved the ref.
Raced(p, q, ref, old) ==
    /\ p # q
    /\ kind[p] = "RefStore" /\ kind[q] = "RefStore"
    /\ Finished(p) /\ Finished(q)
    /\ AllHooksPassed(p) /\ AllHooksPassed(q)
    /\ Won(p, ref, old) /\ Lost(q, ref, old)
    /\ ur[p].newValue # old /\ ur[q].newValue # old
    /\ \A r \in Procs \ {p, q} : EventsOf(r, "update-ref") = {}

\* C1: of two UpdateRef calls racing on one ref from the same old value, with
\* all hooks passing, exactly one succeeds and the loser fails with Conflict,
\* for a creation (old is Nil) and for an update of an existing ref alike.
C1_ExactlyOneSuccessOneConflict ==
    \A p \in Procs, q \in Procs, ref \in RefNames, old \in SHAs \cup NewCommits :
        Raced(p, q, ref, old) => result[p] = OK /\ result[q] = "Conflict"

PreReceiveFailed(p) == DidFail(p, "PreReceive")

C2_Step(p) ==
    PreReceiveFailed(p)' =>
        /\ pc'[p] = "done"
        /\ result'[p] \notin {OK, "running"}
        /\ EventsOf(p, "update-ref")' = {}
        /\ EventsOf(p, "PostReceive")' = {}
        /\ (trace'[p] # trace[p] => refs' = refs)

\* C2: when pre-receive fails or reports an error, UpdateRef returns an error,
\* that call runs no update-ref command and no post-receive, and the step in
\* which the call fails leaves every ref as it was.
C2_PreReceiveVetoStopsUpdate == [][\A p \in Procs : C2_Step(p)]_vars

C2_Witness ==
    \E p \in Procs : PreReceiveFailed(p) /\ Failed(p) /\ ur[p].ref \in DOMAIN refs
                       /\ refs[ur[p].ref] = ur[p].oldValue

MovedRef(p) == Did(p, "update-ref", OK)

\* C3: whenever CommitFiles returns an error, that call has not changed the ref.
C3_ErrorMeansRefUntouched ==
    \A p \in Procs : kind[p] = "CommitFiles" /\ Failed(p) => ~MovedRef(p)

\* C3 (amended): a CommitFiles that returns an error has changed the ref only
\* if the error is a post-receive failure or a failure of the final GetCommit;
\* an error from any step up to and including the store update leaves the ref
\* unchanged by that call.
C3_ErrorBeforePostReceiveMeansRefUntouched ==
    \A p \in Procs :
        kind[p] = "CommitFiles" /\ Failed(p) =>
            (MovedRef(p) <=> EventsOf(p, "PostReceive") # {})

C3_Witness ==
    \E p \in Procs : /\ kind[p] = "CommitFiles" /\ Failed(p)
                     /\ DidFail(p, "update-ref") /\ ~MovedRef(p)
                     /\ objects # Commits

\* The value the target ref must have for the new commit of CommitFiles not to
\* overwrite anything: the parent the commit was built on, or no ref at all.
BuiltOn(params) ==
    IF params.Branch # params.NewBranch \/ IsEmpty(params.oldCommitSHA)
    THEN Nil ELSE params.oldCommitSHA

\* C4: whenever CommitFiles moves a branch ref to its new commit, the value the
\* store replaced is the parent the commit was built on (no ref when the commit
\* has no parent or a new branch is created).
C4_NoSilentOverwrite ==
    \A p \in Procs :
        kind[p] = "CommitFiles" =>
            \A i \in EventsOf(p, "update-ref") :
                trace[p][i].res = OK => trace[p][i].old = BuiltOn(cf[p])

IsHookOrCas(e) == e.ev \in {"PreReceive", "update-ref", "PostReceive"}

Triple(e) == <<e.ref, e.old, e.new>>

C5_Order(H) ==
    /\ Len(H) <= 3
    /\ Len(H) >= 1 => H[1].ev = "PreReceive"
    /\ Len(H) >= 2 => H[2].ev = "update-ref" /\ H[1].res = OK
                      /\ Triple(H[2]) = Triple(H[1])
    /\ Len(H) >= 3 => H[3].ev = "PostReceive" /\ H[2].res = OK
                      /\ Triple(H[3]) = Triple(H[1])

\* C5: each call makes its calls in the order pre-receive, update-ref,
\* post-receive, each at most once; update-ref only after pre-receive passed,
\* post-receive only after update-ref succeeded, and post-receive gets the
\* triple {Ref, Old, New} that pre-receive got.
C5_HookOrder == \A p \in Procs : C5_Order(SelectSeq(trace[p], IsHookOrCas))

C5_Witness ==
    \E p \in Procs, q \in Procs :
        /\ Len(SelectSeq(trace[p], IsHookOrCas)) = 3
        /\ DidFail(q, "update-ref") /\ Finished(q)
        /\ ur[p].ref = ur[q].ref /\ ur[p].oldValue = ur[q].oldValue

PostReceiveFailed(p) == DidFail(p, "PostReceive")

C6_Step(p) ==
    PostReceiveFailed(p)' =>
        /\ pc'[p] = "done"
        /\ result'[p] \notin {OK, "running"}
        /\ Cardinality(EventsOf(p, "update-ref")') = 1
        /\ MovedRef(p)'
        /\ (trace'[p] # trace[p] => refs' = refs)

\* C6: when post-receive fails after a successful update-ref, UpdateRef returns
\* an error, the failing step leaves the ref at the value the update gave it,
\* and the call runs no further store command.
C6_PostReceiveFailureKeepsUpdate == [][\A p \in Procs : C6_Step(p)]_vars

C6_Witness ==
    \E p \in Procs : /\ PostReceiveFailed(p) /\ Failed(p) /\ kind[p] = "RefStore"
                     /\ ur[p].ref \in DOMAIN refs
                     /\ refs[ur[p].ref] = ur[p].newValue
                     /\ ur[p].newValue # ur[p].oldValue

\* The store after a compare-and-swap of frame f went through.
Swapped(rs, f) ==
    [x \in (IF f.newValue = Nil THEN DOMAIN rs \ {f.ref} ELSE DOMAIN rs \cup {f.ref}) |->
        IF x = f.ref THEN f.newValue ELSE rs[x]]

HoldsOld(rs, f) ==
    IF f.oldValue = Nil THEN f.ref \notin DOMAIN rs
    ELSE f.ref \in DOMAIN rs /\ rs[f.ref] = f.oldValue

C7_Step ==
    /\ refs' # refs =>
         \E p \in Procs : /\ pc[p] = "update-ref" /\ pc'[p] # pc[p]
                          /\ HoldsOld(refs, ur[p])
                          /\ refs' = Swapped(refs, ur[p])
    /\ \A p \in Procs :
         (pc[p] = "update-ref" /\ pc'[p] # pc[p]) =>
            LET e == trace'[p][Len(trace'[p])] IN
            /\ e.res = OK => HoldsOld(refs, ur[p]) /\ refs' = Swapped(refs, ur[p])
            /\ e.res \in {"Conflict", "Internal"} => ~HoldsOld(refs, ur[p])
            /\ e.res # OK => refs' = refs

\* C7: a ref changes only in the update-ref step of a call whose oldValue is
\* the ref's value at that step (Nil for an absent ref); the ref then holds the
\* call's newValue (is absent when newValue is Nil) and every other ref is as
\* before; the store refuses an update only because of the value of that ref.
C7_LinearizablePerRef == [][C7_Step]_vars

C7_Witness ==
    \E p \in Procs, q \in Procs :
        /\ MovedRef(p) /\ MovedRef(q)
        /\ ur[p].ref # ur[q].ref
        /\ ur[p].oldValue # Nil /\ ur[p].newValue = Nil
        /\ ur[q].oldValue = Nil

C8_Step(p) ==
    (pc[p] = "UpdateRef" /\ pc'[p] # pc[p] /\ ur[p].repoPath # "") =>
        LET f      == ur[p]
            nv     == IF f.newValue = None THEN Nil ELSE f.newValue
            absent == f.ref \notin DOMAIN refs
            passed == pc'[p] = "updateRefWithHooks"
            failed == pc'[p] = "done" /\ trace'[p] = trace[p] /\ refs' = refs
        IN /\ passed \/ failed
           /\ ur'[p].newValue = nv
           /\ f.oldValue # None => passed /\ ur'[p].oldValue = f.oldValue
           /\ (f.oldValue = None /\ absent /\ nv = Nil) =>
                 failed /\ result'[p] \in {"NotFound", "Error"}
           /\ (f.oldValue = None /\ passed) =>
                 ur'[p].oldValue = (IF absent THEN Nil ELSE refs[f.ref])
           /\ (f.oldValue = None /\ failed) =>
                 \/ result'[p] = "NotFound" /\ absent /\ nv = Nil
                 \/ result'[p] = "Error"

\* C8: UpdateRef turns an empty newValue into Nil; an empty oldValue is looked
\* up: absent ref and Nil newValue fail with NotFound before any hook, absent
\* ref otherwise gives oldValue Nil, a present ref gives its value, any other
\* lookup error fails before any hook; a given oldValue is passed on as it is,
\* whatever the lookup would have said.
C8_UpdateRefNormalizes == [][\A p \in Procs : C8_Step(p)]_vars

C8_Witness ==
    \E p \in Procs, q \in Procs :
        /\ kind[p] = "RefStore" /\ Finished(p) /\ result[p] = "NotFound"
        /\ ur[p].oldValue = None /\ ur[p].newValue = Nil /\ trace[p] = <<>>
        /\ kind[q] = "RefStore" /\ Did(q, "PreReceive", OK)
        /\ ur[q].oldValue = Nil /\ ur[q].newValue \in Commits

\* A reference update that updateRefWithHooks must refuse.
Contradictory(f) ==
    \/ f.repoPath = ""
    \/ f.oldValue = None
    \/ f.newValue = None
    \/ f.oldValue = Nil /\ f.newValue = Nil

C9_Step(p) ==
    (pc[p] = "updateRefWithHooks" /\ pc'[p] # pc[p] /\ Contradictory(ur[p])) =>
        /\ pc'[p] = "done"
        /\ result'[p] \notin {OK, "running"}
        /\ trace'[p] = trace[p]
        /\ refs' = refs

\* C9: updateRefWithHooks refuses an update with old and new both Nil, with an
\* empty old or new value or with an empty repository path before any side
\* effect: no hook client, no hook call, no update-ref command.
C9_RejectedBeforeSideEffect == [][\A p \in Procs : C9_Step(p)]_vars

C9_Witness ==
    \E p \in Procs, q \in Procs :
        /\ Failed(p) /\ ur[p].repoPath # "" /\ ur[p].newValue = None /\ trace[p] = <<>>
        /\ Failed(q) /\ ur[q].oldValue = Nil /\ ur[q].newValue = Nil /\ trace[q] = <<>>

AfterClosure == {"UpdateRef", "updateRefWithHooks", "update-ref", "PostReceive", "GetCommit"}

\* C10: the staging repository CommitFiles created is released on every exit
\* path: no finished CommitFiles leaves a staging directory, and it is released
\* before the ref update starts.
C10_SharedRepoReleased ==
    \A p \in Procs :
        kind[p] = "CommitFiles" =>
            /\ Finished(p) => shared[p] # "open"
            /\ pc[p] \in AfterClosure => shared[p] = "closed"
            /\ trace[p] # <<>> => shared[p] = "closed"

C10_Witness ==
    \E p \in Procs, q \in Procs :
        /\ kind[p] = "CommitFiles" /\ Failed(p) /\ shared[p] = "closed" /\ trace[p] = <<>>
        /\ kind[q] = "CommitFiles" /\ Finished(q) /\ result[q] = OK /\ shared[q] = "closed"

\* C11: when the ref update of a CommitFiles fails or is never reached, none of
\* the objects that call built are in the origin's object store.
C11_ObjectsOnlyAfterSuccess ==
    \A p \in Procs :
        (kind[p] = "CommitFiles" /\ Failed(p) /\ ~MovedRef(p)) =>
            NewCommitSHA(p) \notin objects

\* The steps of CommitFiles from the staging repository to the ref update.
C12_Order ==
    <<"NewSharedRepo", "InitAsShared", "prepareTree", "processAction", "WriteTree",
      "CommitTree", "MoveObjects", "UpdateRef">>

C12_Pos(label) == CHOOSE i \in 1..Len(C12_Order) : C12_Order[i] = label

C12_Step ==
    /\ \A p \in Procs :
         (/\ kind[p] = "CommitFiles"
          /\ \E i \in 1..(Len(C12_Order) - 1) : C12_Order[i] = pc[p]
          /\ <<pc[p], shared[p], cf[p]>>' # <<pc[p], shared[p], cf[p]>>) =>
            \/ /\ pc'[p] = C12_Order[C12_Pos(pc[p]) + 1]
               /\ pc[p] = "processAction" => cf[p].i = Len(cf[p].Actions)
               /\ result'[p] = "running"
            \/ /\ pc[p] = "prepareTree" /\ cf[p].Actions = <<>>
               /\ pc'[p] = "WriteTree"
               /\ result'[p] = "running"
            \/ /\ pc[p] = "processAction" /\ cf[p].i < Len(cf[p].Actions)
               /\ pc'[p] = "processAction" /\ cf'[p].i = cf[p].i + 1
               /\ result'[p] = "running"
            \/ /\ pc'[p] = "done"
               /\ result'[p] \notin {OK, "running"}
    /\ objects' # objects =>
         \E p \in Procs : /\ pc[p] = "MoveObjects" /\ pc'[p] = "UpdateRef"
                          /\ cf[p].newCommitSHA = NewCommitSHA(p)
                          /\ objects' = objects \cup {NewCommitSHA(p)}
                          /\ trace[p] = <<>>
    /\ \A p \in Procs :
         (kind[p] = "CommitFiles" /\ pc'[p] = "UpdateRef") => NewCommitSHA(p) \in objects'

\* C12: CommitFiles runs staging creation, staging init, index seeding, the
\* actions one after the other, WriteTree, CommitTree, MoveObjects and
\* UpdateRef in this order; a step starts
\* only after the one before succeeded, a failed step ends the call, no step
\* runs twice, and objects reach the origin only in MoveObjects, after the
\* commit was created and before any hook or store update of the call.
C12_LinearPipeline == [][C12_Step]_vars

C12_Witness ==
    \E p \in Procs, q \in Procs :
        /\ kind[p] = "CommitFiles" /\ pc[p] = "UpdateRef"
        /\ NewCommitSHA(p) \in objects /\ shared[p] = "closed"
        /\ kind[q] = "CommitFiles" /\ Failed(q) /\ shared[q] = "closed"
        /\ NewCommitSHA(q) \notin objects

C13_Step(p) ==
    (pc[p] = "CommitFiles" /\ pc'[p] # pc[p] /\ Validate(cf[p]) # OK) =>
        /\ pc'[p] = "done"
        /\ result'[p] = Validate(cf[p])
        /\ cf'[p] = cf[p]
        /\ shared'[p] = "none"
        /\ trace'[p] = <<>>
        /\ refs' = refs
        /\ objects' = objects

\* C13: when Validate fails, CommitFiles returns that error in its first step:
\* the emptiness check is not recorded, no staging repository is created, no
\* object is written, no hook is called and no ref is changed.
C13_ValidateFailureHasNoEffect == [][\A p \in Procs : C13_Step(p)]_vars

C13_Witness ==
    \E p \in Procs :
        /\ kind[p] = "CommitFiles" /\ Finished(p) /\ cf[p].RepoUID = ""
        /\ result[p] = "InvalidArgument" /\ shared[p] = "none" /\ trace[p] = <<>>
        /\ refs = <<>>

MainRef == <<"refs/heads/", "main">>

DevRef == <<"refs/heads/", "dev">>

\* The request names the source branch as its target: unset, or spelled out.
C15_SameTarget(params) == params.NewBranch \in {<<>>, <<"main">>, MainRef}

C15_Refused(p, classes) ==
    /\ pc'[p] = "done"
    /\ result'[p] \in classes
    /\ shared'[p] = "none"
    /\ trace'[p] = <<>>
    /\ refs' = refs

C15_Step(p) ==
    /\ (pc[p] = "validateAndPrepareHeader" /\ pc'[p] # pc[p] /\ ~cf[p].isEmpty) =>
         /\ MainRef \notin DOMAIN refs => C15_Refused(p, {"NotFound", "Error"})
         /\ (MainRef \in DOMAIN refs /\ C15_SameTarget(cf[p])) =>
               \/ pc'[p] = "NewSharedRepo" /\ cf'[p].NewBranch = cf'[p].Branch
               \/ C15_Refused(p, {"Error"})
         /\ (MainRef \in DOMAIN refs /\ ~C15_SameTarget(cf[p])) =>
               \/ pc'[p] = "GetBranchNew" /\ cf'[p].NewBranch = <<"dev">>
               \/ C15_Refused(p, {"Error"})
    /\ (pc[p] = "GetBranchNew" /\ pc'[p] # pc[p]) =>
         /\ DevRef \in DOMAIN refs => C15_Refused(p, {"Conflict", "Error"})
         /\ DevRef \notin DOMAIN refs =>
               \/ pc'[p] = "NewSharedRepo"
               \/ C15_Refused(p, {"Error"})

\* C15: on a non-empty repository the header validation fails when the source
\* branch does not exist, and fails with Conflict (a generic error when the
\* lookup itself fails) when a new branch is requested and exists; in both
\* cases no staging repository exists and no ref changes.  A target that is
\* unset or equals the source after prefix stripping skips the target check.
C15_HeaderValidation == [][\A p \in Procs : C15_Step(p)]_vars

C15_Witness ==
    \E p \in Procs, q \in Procs :
        /\ kind[p] = "CommitFiles" /\ Failed(p) /\ result[p] = "Conflict"
        /\ cf[p].NewBranch = <<"dev">> /\ shared[p] = "none" /\ trace[p] = <<>>
        /\ kind[q] = "CommitFiles" /\ ~cf[q].isEmpty /\ pc[q] = "InitAsShared"
        /\ cf[q].NewBranch = cf[q].Branch

\* The action that caller p's loop is about to apply.
Cur(p) == cf[p].Actions[cf[p].i]

\* This step applies an action of the given type, with a clean non-empty
\* path, on a repository with a parent commit.
Applies(p, type) ==
    /\ kind[p] = "CommitFiles" /\ pc[p] = "processAction" /\ ~cf[p].isEmpty
    /\ <<pc[p], cf[p].i>>' # <<pc[p], cf[p].i>>
    /\ Cur(p).Action = type
    /\ Cur(p).Path # <<>> /\ CleanUploadFileName(Cur(p).Path) = Cur(p).Path

ActionDone(p) ==
    /\ cf'[p].i = cf[p].i + 1
    /\ pc'[p] \in {"processAction", "WriteTree"}

\* The action failed with one of the classes and staged nothing.
ActionFailed(p, classes) ==
    /\ pc'[p] = "done" /\ result'[p] \in classes
    /\ index'[p] = index[p]

\* path is a blob (file or link) of the tree.
IsBlobIn(tree, path) == path \in DOMAIN tree

\* path is taken in the tree: by a blob or by a directory.
ExistsIn(tree, path) ==
    IsBlobIn(tree, path) \/ \E q \in DOMAIN tree : IsProperPrefix(path, q)

\* A proper prefix of path is a blob of the tree.
BlockedIn(tree, path) ==
    \E k \in 1..(Len(path) - 1) : IsBlobIn(tree, SubSeq(path, 1, k))

HasNonCreate(acts) == \E i \in 1..Len(acts) : acts[i].Action # CreateAction

ValidPaths(acts) == \A i \in 1..Len(acts) : CleanUploadFileName(acts[i].Path) # <<>>

TargetRef(params) ==
    <<"refs/heads/">> \o (IF params.NewBranch = <<>> THEN <<"main">> ELSE params.NewBranch)

\* C14 as stated: on an empty repository a request with an action other than
\* Create fails with PreconditionFailed (store failures aside) and leaves no
\* branch.
C14_NonCreateIsPreconditionFailed ==
    \A p \in Procs :
        (/\ kind[p] = "CommitFiles" /\ Finished(p) /\ cf[p].isEmpty
         /\ HasNonCreate(cf[p].Actions) /\ result[p] \notin {"Error", "Internal"}) =>
            result[p] = "PreconditionFailed" /\ refs = <<>>

\* C14 (amended): on an empty repository a request with an action other than
\* Create fails and leaves no branch, with PreconditionFailed unless a Create
\* before the first other action has an invalid path (InvalidArgument) or a
\* store command fails; a request of Create actions with valid paths never
\* fails for a reason of the request, and when it succeeds the repository has
\* exactly one branch, the target, at the new commit, which has no parent and
\* whose tree holds the file created last.
C14_EmptyRepoOnlyCreates ==
    \A p \in Procs :
        (kind[p] = "CommitFiles" /\ Finished(p) /\ cf[p].isEmpty) =>
            LET acts == cf[p].Actions
                first == CHOOSE i \in 1..Len(acts) :
                            /\ acts[i].Action # CreateAction
                            /\ \A j \in 1..(i - 1) : acts[j].Action = CreateAction
            IN /\ HasNonCreate(acts) =>
                    /\ refs = <<>> /\ trace[p] = <<>>
                    /\ result[p] \in {"PreconditionFailed", "InvalidArgument", "Error", "Internal"}
                    /\ result[p] = "InvalidArgument" =>
                          ~ValidPaths(SubSeq(acts, 1, first - 1))
                    /\ ValidPaths(SubSeq(acts, 1, first - 1)) =>
                          result[p] \in {"PreconditionFailed", "Error", "Internal"}
               /\ (~HasNonCreate(acts) /\ ValidPaths(acts)) =>
                    /\ result[p] \in {OK, "Error", "Internal", "NotFound"}
                    /\ result[p] = OK =>
                          /\ DOMAIN refs = {TargetRef(cf[p])}
                          /\ refs[TargetRef(cf[p])] = NewCommitSHA(p)
                          /\ NewCommitSHA(p) \in objects
                          /\ IsEmpty(cf[p].oldCommitSHA)
                          /\ acts # <<>> =>
                                IsBlobIn(cf[p].treeHash, acts[Len(acts)].Path)

C14_Witness ==
    \E p \in Procs :
        /\ kind[p] = "CommitFiles" /\ Finished(p) /\ cf[p].isEmpty /\ result[p] = OK
        /\ Len(cf[p].Actions) = 2 /\ cf[p].Actions[1].Path # cf[p].Actions[2].Path
        /\ DOMAIN refs = {DevRef}

C16_Step(p) ==
    Applies(p, CreateAction) =>
        LET tree == TreeOf(cf[p].oldCommitSHA)
            path == Cur(p).Path
        IN /\ BlockedIn(tree, path) => ActionFailed(p, {"Conflict", "Error"})
           /\ (~BlockedIn(tree, path) /\ ~ExistsIn(tree, path)) =>
                 \/ /\ ActionDone(p)
                    /\ IsBlobIn(index'[p], path)
                    /\ index'[p][path] = Entry(defaultFilePermission, Cur(p).Payload)
                 \/ ActionFailed(p, {"Error"})
           /\ (pc'[p] = "done" /\ result'[p] = "Conflict") =>
                 BlockedIn(tree, path) \/ ExistsIn(tree, path)

\* C16: a Create fails with Conflict (a store failure aside) and stages
\* nothing when a proper prefix of its path is a plain file or a symlink of the
\* parent commit's tree; when no prefix is one and the path itself is free the
\* check passes and the file is staged; Conflict has no other cause than a
\* taken prefix or a taken path.
C16_CreateBelowFileIsConflict == [][\A p \in Procs : C16_Step(p)]_vars

C16_Witness ==
    \E p \in Procs :
        /\ kind[p] = "CommitFiles" /\ Finished(p) /\ result[p] = "Conflict"
        /\ cf[p].i = 1 /\ cf[p].Actions[1].Action = CreateAction
        /\ cf[p].Actions[1].Path = <<"d", "f">>
        /\ IsBlobIn(TreeOf(cf[p].oldCommitSHA), <<"d">>)

\* The destination of the Move that caller p is about to apply.
MoveTarget(p) == parseMovePayload(Cur(p).Payload).newPath

\* The entry that Update or Move of caller p looks up exists in the parent
\* tree and agrees with the source SHA of the action, if one is given.
SourceMatches(p) ==
    LET tree == TreeOf(cf[p].oldCommitSHA) IN
    /\ IsBlobIn(tree, Cur(p).Path)
    /\ Cur(p).SHA \in {<<>>, tree[Cur(p).Path].sha}

C17_Step(p) ==
    /\ Applies(p, CreateAction) =>
         /\ ExistsIn(index[p], Cur(p).Path) => ActionFailed(p, {"Conflict", "Error"})
         /\ (~ExistsIn(index[p], Cur(p).Path) /\ ~BlockedIn(index[p], Cur(p).Path)) =>
               ActionDone(p) \/ ActionFailed(p, {"Error"})
    /\ (Applies(p, MoveAction) /\ SourceMatches(p) /\ MoveTarget(p) # <<>>) =>
         /\ ExistsIn(index[p], MoveTarget(p)) => ActionFailed(p, {"Conflict", "Error"})
         /\ (~ExistsIn(index[p], MoveTarget(p)) /\ ~BlockedIn(index[p], MoveTarget(p))) =>
               ActionDone(p) \/ ActionFailed(p, {"Error"})

\* C17: a Create, or a Move with a matching source, fails with Conflict (a
\* store failure aside) whenever its final path is taken in the staged index at
\* the time the action is applied, also by an earlier action of the request,
\* and passes on a path that is free in the staged index, also one that an
\* earlier action of the request deleted.
C17_AvailabilityAgainstStagedTree == [][\A p \in Procs : C17_Step(p)]_vars

C18_Step(p) ==
    Applies(p, UpdateAction) =>
        LET tree == TreeOf(cf[p].oldCommitSHA)
            path == Cur(p).Path
        IN /\ ~ExistsIn(tree, path) => ActionFailed(p, {"NotFound", "Error"})
           /\ SourceMatches(p) =>
                 \/ /\ ActionDone(p)
                    /\ IsBlobIn(index'[p], path)
                    /\ index'[p][path].sha = WriteGitObject(Cur(p).Payload)
                    /\ index'[p][path].mode =
                          (IF tree[path].mode = ExecutableMode
                           THEN ExecutableMode ELSE defaultFilePermission)
                    /\ \A q \in DOMAIN index[p] \ {path} :
                          IsBlobIn(index'[p], q) /\ index'[p][q] = index[p][q]
                 \/ ActionFailed(p, {"Error"})
           /\ (IsBlobIn(tree, path) /\ ~SourceMatches(p)) =>
                 ActionFailed(p, {"InvalidArgument", "Error"})

\* The request of caller p ended with an Update and the call succeeded.
C18_Committed(p) ==
    /\ kind[p] = "CommitFiles" /\ Finished(p) /\ result[p] = OK /\ ~cf[p].isEmpty
    /\ cf[p].Actions # <<>>
    /\ cf[p].Actions[Len(cf[p].Actions)].Action = UpdateAction

\* C18: an Update of a path of the parent tree with no source SHA or with the
\* SHA of the entry stages the new content at that path, with the executable
\* bit of the entry, and leaves the other staged files alone; with another
\* source SHA it fails with InvalidArgument, on a path that is not in the tree
\* with NotFound, staging nothing either way (a store failure aside).  The tree
\* of the commit of a successful request that ends with an Update resolves the
\* path to the new content, and the target branch points to that commit.
C18_UpdateStagesNewContent ==
    [][\A p \in Procs :
          /\ C18_Step(p)
          /\ C18_Committed(p)' =>
                LET last == cf'[p].Actions[Len(cf'[p].Actions)] IN
                /\ cf'[p].treeHash[last.Path].sha = WriteGitObject(last.Payload)
                /\ refs'[TargetRef(cf'[p])] = NewCommitSHA(p)]_vars

C18_Witness ==
    \E p \in Procs :
        /\ C18_Committed(p) /\ Len(cf[p].Actions) = 2
        /\ cf[p].Actions[2].SHA = WriteGitObject(<<"y">>)
        /\ cf[p].Actions[2].Path = <<"d", "f">>
        /\ cf[p].treeHash[<<"d", "f">>] = Entry(ExecutableMode, <<"z">>)

\* An Update or a Move names an entry of the parent tree and a source SHA
\* that is not the SHA of that entry.
C19_Stale(p) ==
    /\ Applies(p, UpdateAction) \/ (Applies(p, MoveAction) /\ MoveTarget(p) # <<>>)
    /\ IsBlobIn(TreeOf(cf[p].oldCommitSHA), Cur(p).Path)
    /\ ~SourceMatches(p)

\* C19 as stated: a source SHA that does not match makes CommitFiles fail with
\* a Conflict-class error (a store failure aside).
C19_StaleSHAIsConflict ==
    [][\A p \in Procs : C19_Stale(p) => ActionFailed(p, {"Conflict", "Error"})]_vars

\* C19 (amended): a source SHA that does not match makes CommitFiles fail with
\* an InvalidArgument-class error (a store failure aside), staging nothing.
C19_StaleSHAIsInvalidArgument ==
    [][\A p \in Procs : C19_Stale(p) => ActionFailed(p, {"InvalidArgument", "Error"})]_vars

C19_Witness ==
    \E p \in Procs :
        /\ kind[p] = "CommitFiles" /\ Finished(p) /\ result[p] = "InvalidArgument"
        /\ cf[p].i = 2 /\ cf[p].Actions[2].Action = MoveAction
        /\ cf[p].Actions[2].SHA # <<>>
        /\ cf[p].Actions[1].Action = UpdateAction

C20_Step(p) ==
    Applies(p, DeleteAction) =>
        LET path == Cur(p).Path IN
        /\ ~IsBlobIn(index[p], path) => ActionFailed(p, {"NotFound", "Error"})
        /\ IsBlobIn(index[p], path) =>
              \/ /\ ActionDone(p)
                 /\ DOMAIN index'[p] = DOMAIN index[p] \ {path}
                 /\ \A q \in DOMAIN index'[p] : index'[p][q] = index[p][q]
              \/ ActionFailed(p, {"Error"})
        /\ (pc'[p] = "done" /\ result'[p] = "NotFound") => ~IsBlobIn(index[p], path)

\* C20: a Delete applied by deleteFile fails with NotFound exactly when its
\* path is not a file of the staged index (a store failure aside), and
\* otherwise removes exactly that path from the index.
C20_DeleteAgainstIndex == [][\A p \in Procs : C20_Step(p)]_vars

C20_Witness ==
    \E p \in Procs :
        /\ kind[p] = "CommitFiles" /\ Finished(p) /\ result[p] = "NotFound"
        /\ cf[p].i = 2
        /\ cf[p].Actions[1] = Action(DeleteAction, <<"a">>, <<>>, <<>>)
        /\ cf[p].Actions[2] = Action(DeleteAction, <<"a">>, <<>>, <<>>)

\* The entry of the parent tree that the Move of caller p names as its source.
MoveSource(p) == GetTreeNode(TreeOf(cf[p].oldCommitSHA), Cur(p).Path, "none")

\* The Move failed, whatever the class of the error, and staged nothing.
MoveFailed(p) ==
    ActionFailed(p, {"Error", "NotFound", "InvalidArgument", "Conflict", "Internal"})

C21_Step(p) ==
    Applies(p, MoveAction) =>
        LET tree == TreeOf(cf[p].oldCommitSHA)
            src == Cur(p).Path
            m == parseMovePayload(Cur(p).Payload)
            q == m.newPath
        IN /\ ActionDone(p) =>
                 /\ IsBlobIn(index'[p], q)
                 /\ ~ExistsIn(index'[p], src)
                 /\ ~m.hasContent =>
                       index'[p][q] = [mode |-> MoveSource(p).mode, sha |-> MoveSource(p).sha]
                 /\ m.hasContent =>
                       index'[p][q] =
                          [mode |-> IF MoveSource(p).mode = ExecutableMode
                                    THEN ExecutableMode ELSE defaultFilePermission,
                           sha  |-> WriteGitObject(m.newContent)]
           /\ q = <<>> => MoveFailed(p)
           /\ ~ExistsIn(tree, src) => MoveFailed(p)
           /\ (Cur(p).SHA # <<>> /\ Cur(p).SHA # MoveSource(p).sha) => MoveFailed(p)
           /\ (q # <<>> /\ (ExistsIn(tree, q) \/ BlockedIn(tree, q))) => MoveFailed(p)

\* C21: a Move that succeeds leaves the staged tree with the destination
\* present and the source path absent; the destination is the payload up to
\* its first NUL, cleaned; without a NUL the destination has the SHA and mode
\* of the source entry, with new content it has the new object with the
\* default mode, or the executable mode when the source entry is executable.
\* A Move fails and stages nothing when the destination cleans to the empty
\* path, when the source entry is missing or has another SHA than the one
\* supplied, or when the destination is not available.
C21_MoveRenames == [][\A p \in Procs : C21_Step(p)]_vars

\* The comparison of the SHA made of shaArg with the operand named with has
\* been made and gave res.
Compared(with, res) == shaCmp # NoValue /\ shaCmp.with = with /\ shaCmp.res = res

\* C27: for every hex text that New accepts, of any letter case and with any
\* white space around it, the SHA made of the text is Equal to the text, to
\* the bytes the text stands for and to a second SHA made of the text, and
\* Equal to no value of another type.
C27_EqualAgrees ==
    (shaArg.type = "string" /\ shaCmp # NoValue) =>
        /\ shaCmp.with \in {"self", "raw", "again"} => shaCmp.res
        /\ shaCmp.with = "other" => ~shaCmp.res

\* A SHA has been made of the text or the byte slice shaArg.
Made == shaVal # NoValue /\ shaVal.err = OK

C29_GetRefMapping ==
    [][GetRefCall =>
        LET c == gr'.cmd
            r == gr'.res
            missing == c # NoValue /\ c.exit = 128 /\ Contains(c.msg, "not a valid ref")
        IN /\ r.err = "NotFound" <=> missing
           /\ (c # NoValue /\ c.exit # 0 /\ ~missing) => r.err = "Error"
           /\ (c # NoValue /\ c.exit = 0) => r.err = OK /\ r.sha = refs[gr'.ref]
           /\ gr'.repoPath = "" <=> c = NoValue
           /\ c = NoValue => r.err = ErrRepositoryPathEmpty
           /\ r.err # OK => IsEmpty(r.sha)
           /\ refs' = refs]_vars

C29_Witness ==
    /\ gr # NoValue /\ gr.cmd # NoValue
    /\ gr.cmd.exit = 128 /\ ~Contains(gr.cmd.msg, "not a valid ref")
    /\ gr.res.err = "Error" /\ IsEmpty(gr.res.sha)
    /\ gr.ref \in DOMAIN refs

C30_Step(p) ==
    /\ (pc[p] = "CommitFiles" /\ pc'[p] = "validateAndPrepareHeader") =>
         (cf'[p].isEmpty <=> DOMAIN refs = {})
    /\ (pc[p] = "validateAndPrepareHeader" /\ pc'[p] # pc[p] /\ cf[p].isEmpty) =>
         \/ pc'[p] = "NewSharedRepo" /\ IsEmpty(cf'[p].oldCommitSHA)
         \/ pc'[p] = "done" /\ result'[p] = "Error" /\ cf[p].Branch = <<>>
    /\ (pc[p] = "validateAndPrepareHeader" /\ pc'[p] # pc[p] /\ ~cf[p].isEmpty) =>
         \/ /\ pc'[p] \in {"GetBranchNew", "NewSharedRepo"}
            /\ GetReferenceFromBranchName(cf'[p].Branch) \in DOMAIN refs
            /\ cf'[p].oldCommitSHA = refs[GetReferenceFromBranchName(cf'[p].Branch)]
         \/ /\ pc'[p] = "done" /\ result'[p] = "NotFound"
            /\ GetReferenceFromBranchName(cf'[p].Branch) \notin DOMAIN refs
         \/ pc'[p] = "done" /\ result'[p] = "Error"

\* C30: CommitFiles finds the repository empty exactly when it has no branch
\* at all.  On the empty path the header validation looks up no branch and
\* returns no parent commit; on the other path, also when the default branch
\* does not exist, it returns the tip of the source branch as the parent or
\* fails with NotFound for a source branch that does not exist (a failure of
\* the store aside).
C30_EmptyMeansNoBranches == [][\A p \in Procs : C30_Step(p)]_vars

C30_Witness ==
    \E p \in Procs :
        /\ kind[p] = "CommitFiles" /\ Finished(p) /\ result[p] = "NotFound"
        /\ ~cf[p].isEmpty /\ cf[p].Branch = <<"main">>
        /\ DOMAIN refs = {DevRef}
        /\ shared[p] = "none" /\ trace[p] = <<>>
        /\ \A q \in Procs \ {p} : kind[q] = "none"

\* The positions in the log of the walk of the calls of fn.
CallsOf(fn) == {j \in 1..Len(walk.calls) : walk.calls[j].fn = fn}

\* The positions of the calls of the Instructor that returned ret.
Instructed(ret) == {j \in CallsOf("Instructor") : walk.calls[j].ret = ret}

\* C22: with a MaxWalkDistance d > 0 the walk asks the Instructor about at
\* most d entries and calls the handler at most d times, and the entries
\* handled and the entries skipped are together at most d; with d <= 0 the
\* cap of the walk is 2^31 - 1.
C22_DistanceCap ==
    LET cap == IF walk.d > 0 THEN walk.d ELSE 2147483647 IN
    /\ Cardinality(CallsOf("Instructor")) <= cap
    /\ Cardinality(CallsOf("handler")) <= cap
    /\ Cardinality(CallsOf("handler")) + Cardinality(Instructed("Skip")) <= cap
    /\ walk.i <= cap
    /\ walk.pc = "walkReferenceParser" => walk.MaxWalkDistance = cap

C22_Witness ==
    /\ walk.d = 1 /\ walk.pc = "done" /\ walk.res = OK
    /\ walk.calls = <<Call("Instructor", 1, "Skip")>>
    /\ producer.sent = 2

\* The Instructor returned Stop for the first entry of the stream.
StopFirst == walk.calls # <<>> /\ walk.calls[1] = Call("Instructor", 1, "Stop")

\* C23 as stated: when the Instructor returns Stop on the first entry, the
\* handler is called exactly once during the walk.
C23_StopFirstHandlesOnce ==
    (StopFirst /\ walk.pc = "done") => Cardinality(CallsOf("handler")) = 1

\* C23 (amended): when the Instructor returns Stop on the first entry, the
\* Instructor is called exactly once and the handler is not called during
\* the walk, which ends at once.
C23_StopFirstHandlesNone ==
    StopFirst =>
        /\ walk.pc = "done"
        /\ Cardinality(CallsOf("Instructor")) = 1
        /\ Cardinality(CallsOf("handler")) = 0

C23_Witness ==
    /\ StopFirst /\ walk.pc = "done" /\ walk.res = OK
    /\ Len(producer.stream) = 2 /\ producer.failAt = -1

\* C24: the handler is called for an entry only right after the Instructor
\* returned Handle for it; Instructor and handler each see the entries in
\* the order of the stream and none twice; a Stop is the last call of the
\* walk, which returns without error; an error of the Instructor or of the
\* handler is the last call of the walk, which returns that error.
C24_CallOrder ==
    LET c == walk.calls IN
    \A j \in 1..Len(c) :
        /\ c[j].fn = "handler" =>
              j > 1 /\ c[j - 1] = Call("Instructor", c[j].entry, "Handle")
        /\ \A h \in 1..(j - 1) : c[h].fn = c[j].fn => c[h].entry < c[j].entry
        /\ c[j].entry \in 1..Len(producer.stream)
        /\ c[j].ret = "Stop" => j = Len(c) /\ walk.pc = "done" /\ walk.res = OK
        /\ (c[j].ret \notin {"Stop", "Handle", "Skip", OK}) =>
              j = Len(c) /\ walk.pc = "done" /\ walk.res = c[j].ret

C24_Witness ==
    /\ walk.pc = "done" /\ walk.res = "Conflict"
    /\ walk.calls = <<Call("Instructor", 1, "Handle"), Call("handler", 1, OK),
                      Call("Instructor", 2, "Skip"),
                      Call("Instructor", 3, "Handle"), Call("handler", 3, "Conflict")>>

\* C25: a walk that returns after the command has failed, or on an entry
\* that the parser fails on, returns an error, also when it returns because
\* MaxWalkDistance entries have been consumed.
C25_CommandFailureIsReturned ==
    [][(walk.pc = "walkReferenceParser" /\ walk'.pc = "done"
          /\ (pipe.w = "err"
                \/ (pipe.buf # <<>> /\ producer.stream[pipe.buf[1]] = "garbled"
                      /\ walk.i < walk.MaxWalkDistance)))
        => walk'.res # OK]_vars

\* The consumer waits in a read of the pipe.
BlockedReading ==
    /\ walk.pc = "walkReferenceParser" /\ walk.i < walk.MaxWalkDistance
    /\ pipe.buf = <<>> /\ pipe.w = "open"

\* C26: when the context is cancelled while the consumer waits in a read of
\* the pipe, the producer closes the pipe with the error and WalkReferences
\* returns an error.
C26_CancelUnblocks ==
    (BlockedReading /\ ctxDone) ~>
        (walk.pc = "done" /\ walk.res # OK /\ producer.pc = "done" /\ pipe.w = "err")

C26_Witness ==
    /\ ctxDone /\ walk.pc = "done" /\ walk.res = "Internal"
    /\ pipe.w = "err" /\ producer.pc = "done"
    /\ producer.failAt = -1 /\ producer.sent = 1 /\ Len(producer.stream) = 3
    /\ \A k \in 1..Len(producer.stream) : producer.stream[k] = "ok"
    /\ Len(walk.calls) = 1

\* C31: a failed store update of updateRefWithHooks comes back as NotFound
\* when its whole error text is "no such file or directory", as Conflict
\* when the reference to create exists already, and as Internal otherwise:
\* when the expected old value of an existing or missing reference does not
\* match, and when a missing file is named within a longer text.  The raw
\* error of the command is never the result.
C31_StoreErrorTranslated ==
    ge # NoValue =>
        /\ ge.res \in {"NotFound", "Conflict", "Internal"}
        /\ ge.res = "NotFound" <=> ge.fault = "enoent"
        /\ ge.res = "Conflict" <=>
              ge.fault = "none" /\ IsNil(ge.old) /\ ge.ref \in DOMAIN refs
        /\ (ge.fault = "none" /\ ~IsNil(ge.old)) => ge.res = "Internal"

C31_Witness ==
    /\ ge # NoValue /\ ge.fault = "none" /\ ge.res = "Internal"
    /\ ge.ref \in DOMAIN refs /\ refs[ge.ref] # ge.old /\ ~IsNil(ge.old)

\* The outcome of the action at hand of caller p when no store command
\* fails.
CurOutcome(p) ==
    IF cf[p].isEmpty
    THEN prepareTreeEmptyRepo(index[p], Cur(p), "none")
    ELSE processAction(index[p], ParentCommit(p), Cur(p), "none")

\* Caller p takes a step of the loop over the actions, of WriteTree or of
\* CommitTree.
TreeStep(p) ==
    /\ kind[p] = "CommitFiles"
    /\ pc[p] \in {"processAction", "WriteTree", "CommitTree"}
    /\ pc'[p] # pc[p] \/ cf'[p] # cf[p]

\* C32: an action that fails ends CommitFiles with its error, or with the
\* error of a store command that failed before; when an
\* action, WriteTree or CommitTree fails, no further action is applied to
\* the index, and the origin is as it was: the new commit is not in its
\* object store, the caller has called no hook and no update-ref, and no
\* ref has changed.
C32_Step(p) ==
    /\ (TreeStep(p) /\ pc[p] = "processAction" /\ CurOutcome(p).err # OK) =>
          pc'[p] = "done" /\ result'[p] \in {CurOutcome(p).err, "Error"}
    /\ (TreeStep(p) /\ pc'[p] = "done") =>
          /\ result'[p] # OK
          /\ index'[p] = index[p] /\ cf'[p] = cf[p]
          /\ refs' = refs /\ objects' = objects
          /\ NewCommitSHA(p) \notin objects'
          /\ trace'[p] = <<>> /\ ur'[p] = NoFrame

C32_FailureLeavesOrigin == [][\A p \in Procs : C32_Step(p)]_vars

C32_Witness ==
    /\ kind[1] = "CommitFiles" /\ pc[1] = "done" /\ result[1] = "NotFound"
    /\ Len(cf[1].Actions) = 2 /\ cf[1].i = 1
    /\ cf[1].Actions[1].Action = UpdateAction /\ cf[1].Actions[2].Action = CreateAction
    /\ index[1] = TreeOf(cf[1].oldCommitSHA)
    /\ trace[1] = <<>> /\ NewCommitSHA(1) \notin objects

\* Caller p is in CommitFiles, past the header validation, creating a new
\* branch on a repository that is not empty.
CreatesBranch(p) ==
    /\ kind[p] = "CommitFiles" /\ ~cf[p].isEmpty
    /\ pc[p] \notin {"idle", "CommitFiles", "validateAndPrepareHeader", "done"}
    /\ cf[p].Branch # cf[p].NewBranch

\* C33: when CommitFiles creates a new branch on a repository that is not
\* empty, the parent of the new commit is the tip of the source branch that
\* the header validation resolved; no step of the call changes a ref other
\* than the new branch; the store update names the new branch with the old
\* value Nil and the new commit; when it succeeds the branch did not exist
\* and now points to the new commit; when the branch exists by then, created
\* by somebody else in the meantime, the update fails, CommitFiles returns an
\* error and the branch is not moved.
C33_Step(p) ==
    LET src == GetReferenceFromBranchName(cf'[p].Branch)
        new == GetReferenceFromBranchName(cf[p].NewBranch)
    IN
    /\ (pc[p] = "validateAndPrepareHeader" /\ CreatesBranch(p)') =>
          src \in DOMAIN refs /\ cf'[p].oldCommitSHA = refs[src]
    /\ (CreatesBranch(p) /\ pc'[p] # pc[p]) =>
          /\ cf'[p].oldCommitSHA = cf[p].oldCommitSHA
          /\ cf'[p].Branch = cf[p].Branch /\ cf'[p].NewBranch = cf[p].NewBranch
          /\ \A r \in (DOMAIN refs \cup DOMAIN refs') \ {new} :
                r \in DOMAIN refs /\ r \in DOMAIN refs' /\ refs'[r] = refs[r]
    /\ (CreatesBranch(p) /\ pc[p] = "update-ref" /\ pc'[p] # pc[p]) =>
          /\ ur[p].ref = new /\ ur[p].oldValue = Nil
          /\ ur[p].newValue = NewCommitSHA(p) /\ cf[p].newCommitSHA = NewCommitSHA(p)
          /\ IF new \in DOMAIN refs
             THEN refs' = refs /\ pc'[p] = "done" /\ result'[p] # OK
             ELSE pc'[p] = "PostReceive" =>
                    new \in DOMAIN refs' /\ refs'[new] = NewCommitSHA(p)

C33_NewBranchCreated == [][\A p \in Procs : C33_Step(p)]_vars

C33_Witness ==
    /\ DOMAIN refs = RefNames
    /\ \A p \in Procs :
          /\ kind[p] = "CommitFiles" /\ pc[p] = "done" /\ ~cf[p].isEmpty
          /\ cf[p].Branch = <<"main">> /\ cf[p].NewBranch = <<"dev">>
          /\ cf[p].oldCommitSHA = refs[GetReferenceFromBranchName(<<"main">>)]
    /\ result[1] = OK /\ result[2] = "Conflict" /\ trace[2] # <<>>
    /\ refs[GetReferenceFromBranchName(<<"dev">>)] = NewCommitSHA(1)

\* C34: Create, Update and Move test their paths against the tree of the
\* parent commit whatever the earlier actions of the request have staged,
\* and Delete tests its path against the staged index.  So an Update or a
\* Move of a path that only an earlier action created fails with NotFound, a
\* Create of a free path that an earlier action has created already is not
\* refused, a Create of a path of the parent tree that an earlier action has
\* deleted fails with Conflict, and a Delete passes exactly on a staged file
\* (a store failure aside in each case).
C34_Step(p) ==
    LET tree == TreeOf(cf[p].oldCommitSHA)
        path == Cur(p).Path
    IN
    /\ Applies(p, CreateAction) =>
          /\ ExistsIn(tree, path) => ActionFailed(p, {"Conflict", "Error"})
          /\ (~ExistsIn(tree, path) /\ ~BlockedIn(tree, path)) =>
                ActionDone(p) \/ ActionFailed(p, {"Error"})
    /\ (Applies(p, UpdateAction) \/ Applies(p, MoveAction)) =>
          /\ ~ExistsIn(tree, path) =>
                ActionFailed(p, {"NotFound", "Error"})
                    \/ (Cur(p).Action = MoveAction /\ MoveTarget(p) = <<>>
                          /\ ActionFailed(p, {"Error"}))
          /\ (Cur(p).Action = UpdateAction /\ SourceMatches(p)) =>
                ActionDone(p) \/ ActionFailed(p, {"Error"})
    /\ (Applies(p, MoveAction) /\ SourceMatches(p) /\ MoveTarget(p) # <<>>) =>
          /\ ExistsIn(tree, MoveTarget(p)) => ActionFailed(p, {"Conflict", "Error"})
          /\ (~ExistsIn(tree, MoveTarget(p)) /\ ~BlockedIn(tree, MoveTarget(p))) =>
                ActionDone(p) \/ ActionFailed(p, {"Error"})
    /\ Applies(p, DeleteAction) =>
          IF IsBlobIn(index[p], path)
          THEN ActionDone(p) \/ ActionFailed(p, {"Error"})
          ELSE ActionFailed(p, {"NotFound", "Error"})

C34_GuardsAgainstParentTree == [][\A p \in Procs : C34_Step(p)]_vars

C34_Witness ==
    /\ kind[1] = "CommitFiles" /\ pc[1] = "WriteTree" /\ ~cf[1].isEmpty
    /\ Len(cf[1].Actions) = 2
    /\ cf[1].Actions[1] = cf[1].Actions[2]
    /\ cf[1].Actions[1].Action = CreateAction /\ cf[1].Actions[1].Path = <<"n">>
    /\ ~ExistsIn(TreeOf(cf[1].oldCommitSHA), <<"n">>)
    /\ IsBlobIn(index[1], <<"n">>)

\* The walk has started its producer.
Piped == pipe # NoValue

\* The read end is closed once WalkReferences has returned; the write end is
\* closed exactly when the producer has ended; and while both run one of
\* them can take a step.
C35_State ==
    Piped =>
        /\ walk.pc = "done" => pipe.r = "closed"
        /\ producer.pc = "done" <=> pipe.w # "open"
        /\ (walk.pc # "done" /\ producer.pc # "done") =>
              ENABLED walkReferenceParser \/ ENABLED ForEachRefWrite
                  \/ ENABLED ForEachRefExit

\* A write end that is closed is not closed again or reopened, and a
\* producer that has ended does nothing more.
C35_Once ==
    (Piped /\ pipe.w # "open") => pipe'.w = pipe.w /\ producer' = producer

\* C35: on every way out of WalkReferences after the pipe was made, the read
\* end of the pipe is closed, a producer that waits in a write is released,
\* and the producer ends and closes the write end, once; producer and
\* consumer never wait for each other.
C35_ProducerTerminates ==
    /\ []C35_State
    /\ [][C35_Once]_vars
    /\ (Piped /\ walk.pc = "done") ~> (producer.pc = "done" /\ pipe.w # "open")

C35_Witness ==
    /\ Piped /\ walk.pc = "done" /\ walk.res = OK
    /\ walk.calls # <<>> /\ walk.calls[Len(walk.calls)].ret = "Stop"
    /\ producer.pc = "done" /\ pipe.w = "err"
    /\ producer.sent = 2 /\ Len(producer.stream) = 3 /\ producer.failAt = -1
    /\ ~ctxDone

\* Caller p takes a turn of the loop over the actions.
LoopStep(p) ==
    /\ kind[p] = "CommitFiles" /\ pc[p] = "processAction"
    /\ <<pc[p], cf[p].i>>' # <<pc[p], cf[p].i>>

\* The action at hand is of none of the four types.
UnknownType(p) ==
    Cur(p).Action \notin {CreateAction, UpdateAction, MoveAction, DeleteAction}

\* C36: on a repository with a parent commit an action whose cleaned path
\* is empty fails with InvalidArgument whatever its type, and an action of
\* none of the four types with a cleaned path that is not empty passes
\* without an error and without a change of the index, and the loop goes on;
\* on an empty repository an action of none of the four types fails with
\* PreconditionFailed.
C36_Step(p) ==
    LoopStep(p) =>
        /\ (~cf[p].isEmpty /\ CleanUploadFileName(Cur(p).Path) = <<>>) =>
              ActionFailed(p, {"InvalidArgument"})
        /\ (~cf[p].isEmpty /\ CleanUploadFileName(Cur(p).Path) # <<>> /\ UnknownType(p)) =>
              ActionDone(p) /\ index'[p] = index[p] /\ result'[p] = "running"
        /\ (cf[p].isEmpty /\ UnknownType(p)) =>
              ActionFailed(p, {"PreconditionFailed"})

C36_UnknownActionIsNoOp == [][\A p \in Procs : C36_Step(p)]_vars

C36_Witness ==
    /\ kind[1] = "CommitFiles" /\ pc[1] = "done" /\ result[1] = OK /\ ~cf[1].isEmpty
    /\ Len(cf[1].Actions) = 1 /\ cf[1].Actions[1].Action = "PATCH"
    /\ cf[1].Actions[1].Path = <<"a">>
    /\ cf[1].treeHash = TreeOf(cf[1].oldCommitSHA)
    /\ refs[GetReferenceFromBranchName(cf[1].NewBranch)] = NewCommitSHA(1)

\* text is raw without the blanks at its two ends.
IsTrimOf(text, raw) ==
    /\ text # <<>> => text[1] # " " /\ text[Len(text)] # " "
    /\ \E i \in 0..Len(raw) :
          /\ i + Len(text) <= Len(raw)
          /\ \A j \in 1..Len(raw) :
                IF j > i /\ j <= i + Len(text) THEN raw[j] = text[j - i]
                ELSE raw[j] = " "

\* C37: the commit is made by the Committer of the request if one is given
\* and by the actor otherwise, and written by the Author if one is given
\* and by that committer otherwise; its committer date is the CommitterDate
\* if one is given and the current time otherwise, its author date the
\* AuthorDate if one is given and that committer date otherwise; its message
\* is the title without the blanks at its ends, followed, exactly when the
\* body of the request is not empty, by a blank line and the body without
\* the blanks at its ends.
C37_HeaderDefaults ==
    (cm # NoValue /\ cm.commit # NoValue) =>
        LET q == cm.params
            c == cm.commit
        IN /\ c.committer = (IF q.Committer = NilPtr THEN q.Actor ELSE q.Committer)
           /\ c.author = (IF q.Author = NilPtr THEN c.committer ELSE q.Author)
           /\ c.committerDate = (IF q.CommitterDate = NilPtr THEN q.now ELSE q.CommitterDate)
           /\ c.authorDate = (IF q.AuthorDate = NilPtr THEN c.committerDate ELSE q.AuthorDate)
           /\ IF q.Message = <<>>
              THEN IsTrimOf(c.message, q.Title)
              ELSE \E k \in 0..Len(c.message) - 2 :
                     /\ IsTrimOf(SubSeq(c.message, 1, k), q.Title)
                     /\ c.message[k + 1] = "\n" /\ c.message[k + 2] = "\n"
                     /\ IsTrimOf(SubSeq(c.message, k + 3, Len(c.message)), q.Message)

C37_Witness ==
    /\ cm # NoValue /\ cm.commit # NoValue
    /\ cm.params.Committer # NilPtr /\ cm.params.Author = NilPtr
    /\ cm.params.CommitterDate = NilPtr /\ cm.params.AuthorDate = NilPtr
    /\ cm.commit.author = cm.params.Committer
    /\ cm.commit.authorDate = cm.params.now
    /\ cm.params.Title = <<" ", "t">> /\ cm.params.Message = <<"t", " ">>
    /\ cm.commit.message = <<"t", "\n", "\n", "t">>

====
